---- MODULE Spec2Model ----
(***************************************************************************)
(* A model of the localization particle filter (localization/src/lib.rs)   *)
(* and of the costmap generator (costmap/src/lib.rs).                      *)
(*                                                                         *)
(* Abstractions that hold throughout:                                      *)
(*  - 3-vectors and unit quaternions are projected on one axis: a vector   *)
(*    is an integer, a rotation is an integer angle, composition of        *)
(*    rotations is addition, the distance of two values is |a - b|.        *)
(*  - floating point weights are exact rationals <<num, den>>.             *)
(*  - wall-clock time advances in ticks.                                   *)
(***************************************************************************)
EXTENDS Integers, Sequences, FiniteSets, TLC

\* ------------------------------------------------------------------ bounds
\* number of particles of the cloud (point_count of the blackboard)
NumParticles == 2
\* sensor frames the steady-state stages are sent in one behaviour
MaxFrames == 2
\* iterations of the steady-state loop in one behaviour
MaxIters == 2
\* sensor frames the steady-state stages are sent when recalibration is modelled
MaxCycleFrames == 1
\* IMU frames the environment sends during the calibration stages
MaxCalibFrames == 2
\* recalibration signals the environment sends in one behaviour
MaxRecal == 1
\* length of the two rolling std-dev queues
StdDevCount == 2

\* --------------------------------------------------------------- rationals
\* A float is an exact rational <<num, den>> in lowest terms with den > 0,
\* or one of the non-finite values <<1, 0>> (+inf), <<-1, 0>> (-inf) and
\* <<0, 0>> (NaN), with the IEEE rules for them.
RECURSIVE GCD(_, _)
GCD(a, b) == IF b = 0 THEN a ELSE GCD(b, a % b)

Abs(x) == IF x < 0 THEN -x ELSE x
Sign(x) == IF x < 0 THEN -1 ELSE IF x > 0 THEN 1 ELSE 0

Rat(n, d) ==
    IF d = 0 THEN <<Sign(n), 0>>
    ELSE LET g == GCD(Abs(n), Abs(d))
         IN  <<(Sign(d) * n) \div g, Abs(d) \div g>>

RZero == <<0, 1>>
ROne == <<1, 1>>
NaN == <<0, 0>>
RInt(n) == <<n, 1>>
IsNaN(a) == a = NaN
IsFinite(a) == a[2] # 0
RNeg(a) == <<-a[1], a[2]>>
RAbs(a) == <<Abs(a[1]), a[2]>>
RAdd(a, b) ==
    IF a[2] = 0 /\ b[2] = 0
    THEN (IF a = b THEN a ELSE NaN)
    ELSE Rat(a[1] * b[2] + b[1] * a[2], a[2] * b[2])
RSub(a, b) == RAdd(a, RNeg(b))
RMul(a, b) == Rat(a[1] * b[1], a[2] * b[2])
RDiv(a, b) == Rat(a[1] * b[2], a[2] * b[1])
\* comparisons are false when either side is NaN
RLeq(a, b) ==
    /\ ~IsNaN(a)
    /\ ~IsNaN(b)
    /\ IF a[2] = 0 /\ b[2] = 0 THEN a[1] <= b[1] ELSE a[1] * b[2] <= b[1] * a[2]
RLt(a, b) == RLeq(a, b) /\ a # b
\* ceil of a finite rational
RCeil(a) == -((-a[1]) \div a[2])

\* ------------------------------------------------------------ localizer
VARIABLES
    stage,              \* "Calibrating", "Running" or "Panicked" (task aborted)
    pc,                 \* position inside the current stage
    calib_elapsed,      \* seconds slept by the latest calibrate_localizer
    waited,             \* time run_localizer's select has been waiting
    delta,              \* start.elapsed() of the current iteration
    imu_map,            \* CalibratingImu per IMU identity
    total_gravity,
    calibrations,       \* bb.calibrations: CalibratedImu per IMU identity
    start_orientation,
    recalibrate_sub, imu_sub, position_sub, velocity_sub, orientation_sub,
    particles,
    linear_acceleration_std_devs, angular_velocity_std_devs,
    estimate,           \* the means computed by the aggregation
    robot_base,         \* the pose handle: isometry and linear velocity
    closed,             \* the sensor channels whose publishers are all gone
    \* history variables
    frames_sent, calib_frames_sent, recal_sent, iters, pub_count, arm, obs,
    newest,             \* per sensor channel, the last frame sent since it was last read
    reported            \* the IMU identities that sent a frame during the Calibrating stage

locState == <<stage, pc, calib_elapsed, waited, delta, imu_map, total_gravity,
             calibrations, start_orientation, recalibrate_sub, imu_sub,
             position_sub, velocity_sub, orientation_sub, particles,
             linear_acceleration_std_devs, angular_velocity_std_devs,
             estimate, robot_base, frames_sent, calib_frames_sent, recal_sent,
             iters, pub_count, arm, obs>>
locVars == <<locState, closed, newest, reported>>

\* the costmap generator's state
VARIABLES
    costmap_frames,     \* run's ring of window_length frames
    frame_index,        \* run's write index, counted from 0
    octree_sub,         \* frames rasterized and not yet received by run
    costmap_pub,        \* every Costmap set on the publisher, in order
    gen_pc,             \* "start", "recv" (awaiting a frame) or "done"
    rasterizer,         \* "ok", or "panicked" once the points subscription panicked
    points_sub,         \* "none", "created", or "rejected" once create_points_sub panicked
    \* history variables
    batches_sent, received,
    requested_resolution,   \* the resolution given to create_points_sub
    last_batch_len          \* the number of points of the last batch sent

\* a WhileLoop of ares-bt run on a counter
VARIABLES
    bt_pc,              \* "idle", "condition", "body" or "returned"
    bt_condition,       \* the limit n of the condition status(*sum < n)
    bt_body,            \* the tuple of body children
    bt_child,           \* the index of the child the pass is at
    bt_sum,             \* the blackboard
    bt_status,          \* what run returned: "none" so far, "Ok" or "Err"
    \* history variables
    condition_runs,     \* how often the condition was run
    passes,             \* how many passes of the body were started
    pass_runs           \* the children run so far in the latest pass

\* one reverse scan of a table on its own
VARIABLES
    scan_cloud,         \* the particles the table is built from
    scan_sample,        \* the draw of rng.gen_range(0.0..1.0)
    scan_pick           \* the index the scan stopped at, 0 for none, -1 before the scan

scanVars == <<scan_cloud, scan_sample, scan_pick>>

\* Telemetry::run's connection loop
VARIABLES
    tel_pc,             \* "connecting", "negotiating", "connected" or "returned"
    steering_signal,    \* the Steering last set on the publisher, <<>> for none
    arm_signal,         \* the ArmParameters last set on the publisher, <<>> for none
    enable_camera,      \* the AtomicBool shared with the camera thread
    \* history variables
    connections,        \* how often connect_to succeeded
    timeouts,           \* how often connect_to timed out
    controls_received   \* the packets the steering loop received in this connection

telVars == <<tel_pc, steering_signal, arm_signal, enable_camera, connections,
             timeouts, controls_received>>

btVars == <<bt_pc, bt_condition, bt_body, bt_child, bt_sum, bt_status,
            condition_runs, passes, pass_runs>>

cmVars == <<costmap_frames, frame_index, octree_sub, costmap_pub, gen_pc,
            rasterizer, points_sub, batches_sent, received,
            requested_resolution, last_batch_len>>

\* async_run_all and the nodes it runs
VARIABLES
    run_pc,             \* "idle", "loop" (first loop), "draining" or "returned"
    logger,             \* what init_logger returned: "none" so far, "Ok" or "Err"
    runnables,          \* the nodes given to async_run_all
    critical,           \* those of them marked critical
    node_state,         \* per node: "none", "running", "Ok", "Err", "panicked", "aborted"
    joined,             \* the nodes whose task join_next has returned
    senders_dropped,    \* drop(senders): every node's abort is requested
    ctrl_c_failed,
    run_result          \* what async_run_all returned: "none" so far, "Ok" or "Err"

runVars == <<run_pc, logger, runnables, critical, node_state, joined,
             senders_dropped, ctrl_c_failed, run_result>>

\* a WatchedSubscription over a watch channel of Option<T>
VARIABLES
    watch_kind,         \* "unset", "none" (WatchedSubscription::none()) or "some"
    watch_version,      \* the number of values sent on the channel; the value sent
                        \* n-th is n, and 0 stands for the initial None
    watch_closed,       \* the sender was dropped
    seen_version,       \* the version the receiver has marked as seen
    watch_call,         \* the call in progress or made last
    watch_pending,      \* the call is suspended
    watch_returned,     \* what the last completed call returned, <<>> for None
    \* history variables
    watch_calls,        \* the number of calls made
    watch_completed     \* the number of get and wait_for_change calls completed

watchVars == <<watch_kind, watch_version, watch_closed, seen_version, watch_call,
               watch_pending, watch_returned, watch_calls, watch_completed>>

\* enumerate_depth_cameras: the camera tasks and the device hub thread
VARIABLES
    camera_task,        \* per serial: "start", "waiting" (in pipeline.recv()) or "streaming"
    init_queue,         \* the requests sent on init_tx and not yet received
    hub_pc,             \* "recv" (in init_rx.recv()), "device" or "stopped"
    target_serial,      \* the request the hub thread is serving
    pipelines,          \* per serial, the started pipelines sent and not yet received
    \* history variables
    restarts,           \* how often a camera task returned and was called again
    hub_failures        \* the devices that could not be read or started

depthVars == <<camera_task, init_queue, hub_pc, target_serial, pipelines, restarts,
               hub_failures>>

\* the Autonomy of the AutonomyBlackboard
VARIABLES
    autonomy,
    \* history variables
    autonomy_start,     \* the value before the first advance
    advances            \* the number of calls of advance

autonomyVars == <<autonomy, autonomy_start, advances>>

\* soft_stop and the Option<Blackboard> it is given
VARIABLES
    bb,                 \* <<>> for None, else <<the messages waiting in from_lunabase>>
    stop_status,        \* what soft_stop returned: "none" so far, else the Status
    \* history variables
    bb_given            \* bb as it was when soft_stop was called

stopVars == <<bb, stop_status, bb_given>>

\* ares-bt: one run of a Sequence or of a Select
VARIABLES
    seq_kind,           \* "none", "Sequence" or "Select"
    seq_body,           \* the children, by name
    seq_child,          \* the child that runs next
    seq_sum,            \* the blackboard
    seq_status,         \* "none" until run returns, then "Ok" or "Err"
    \* history variables
    seq_runs            \* the children that ran, with the Status of each

seqVars == <<seq_kind, seq_body, seq_child, seq_sum, seq_status, seq_runs>>

\* the state of the components other than the localizer, the costmap
\* generator, the WhileLoop and the scan
auxVars == <<telVars, runVars, watchVars, depthVars, autonomyVars, stopVars, seqVars>>
\* what the steps of one component leave unchanged
exceptTel == <<locVars, cmVars, btVars, scanVars, runVars, watchVars, depthVars, autonomyVars, stopVars, seqVars>>
exceptRun == <<locVars, cmVars, btVars, scanVars, telVars, watchVars, depthVars, autonomyVars, stopVars, seqVars>>
exceptWatch == <<locVars, cmVars, btVars, scanVars, telVars, runVars, depthVars, autonomyVars, stopVars, seqVars>>
exceptDepth == <<locVars, cmVars, btVars, scanVars, telVars, runVars, watchVars, autonomyVars, stopVars, seqVars>>
exceptAutonomy == <<locVars, cmVars, btVars, scanVars, telVars, runVars, watchVars, depthVars, stopVars, seqVars>>
exceptStop == <<locVars, cmVars, btVars, scanVars, telVars, runVars, watchVars, depthVars, autonomyVars, seqVars>>
exceptSeq == <<locVars, cmVars, btVars, scanVars, telVars, runVars, watchVars, depthVars, autonomyVars, stopVars>>

\* ---- the blackboard's configuration, Localizer::new
\* calibration_duration: Duration::from_secs(3), counted in seconds
calibration_duration == 3
\* max_delta: Duration::from_millis(50); 50 ms is the unit of time of the
\* steady-state stage
max_delta == 1
minimum_unnormalized_weight == <<3, 5>>
undeprivation_factor == <<1, 20>>
linear_acceleration_std_dev_count == StdDevCount
angular_velocity_std_dev_count == StdDevCount
point_count == NumParticles
default_weight == RDiv(ROne, RInt(point_count))

\* 9.81 m/s^2 is the unit of acceleration
StandardGravity == ROne
\* utils::gravity(): the world's gravity vector, pointing down
gravity == RNeg(StandardGravity)

\* ---- the robot's elements (rig::RobotElementRef): isometry_from_base of an
\* element is x |-> rot * x + trans with rot = 1 or -1 (a half turn), and
\* turns orientations by `angle`
ImuElements == {"imu_a", "imu_b"}
CameraElement == "camera"
ElementRot(e) == IF e = "imu_a" THEN ROne ELSE RNeg(ROne)
ElementTrans(e) == IF e = "camera" THEN ROne ELSE RZero
ElementAngle(e) == IF e = "imu_a" THEN RZero ELSE ROne

\* ---- unros pubsub Subscriber::new(1)
\* the one slot that keeps the older message and drops the newer one
SubPushKeepOlder(sub, msg) == IF sub = <<>> THEN <<msg>> ELSE sub

\* one slot, a newer message replaces an unconsumed older one
SubPush(sub, msg) == <<msg>>
SubEmpty == <<>>
\* the subscription left as it is
try_recv_nothing(sub) == sub
\* the subscription after try_recv took the message of the single slot, if any
try_recv(sub) == SubEmpty

\* ---- frames the sensors can send
Variances == {RZero, ROne}
\* an IMU reports its two variances both zero or both non-zero
ImuFrames ==
    {f \in [acceleration : {StandardGravity}, acceleration_variance : Variances,
            angular_velocity : {ROne}, angular_velocity_variance : Variances,
            robot_element : ImuElements] :
        f.acceleration_variance = f.angular_velocity_variance}
PositionFrames ==
    [position : {ROne}, variance : Variances, robot_element : {CameraElement}]
VelocityFrames ==
    [velocity : {ROne}, variance : Variances, robot_element : {CameraElement}]
OrientationFrames ==
    [orientation : {ROne}, variance : Variances, robot_element : {CameraElement}]

\* ---- calibrate_localizer
EmptyMap == [e \in {} |-> 0]

\* the body of the receive loop for one IMU frame
CalibrateAccumulate(map, imu) ==
    LET e == imu.robot_element
        isometry == ElementRot(e)
    IN  IF e \in DOMAIN map
        THEN [map EXCEPT ![e] =
                [count |-> @.count + 1,
                 accel |-> RAdd(@.accel, RMul(isometry, imu.acceleration)),
                 angular_velocity |-> RAdd(imu.angular_velocity, @.angular_velocity)]]
        ELSE [x \in DOMAIN map \cup {e} |->
                IF x = e
                THEN [count |-> 1, accel |-> imu.acceleration,
                      angular_velocity |-> imu.angular_velocity]
                ELSE map[x]]

\* UnitQuaternion::from_axis_angle(new_normalize(axis), angle): normalising a
\* zero axis divides by zero and every component is NaN
FromAxisAngle(axis, angle) ==
    IF axis = RZero \/ ~IsFinite(axis) THEN NaN ELSE angle

\* a.cross(b) of two vectors on the model's single axis
Cross(a, b) == RSub(RMul(a, b), RMul(b, a))

\* the rotation kept as computed
KeptAsComputed(q) == q

\* the rotation replaced by identity when a component is NaN / not finite
OrIdentity(q) == IF IsFinite(q) THEN q ELSE RZero

CalibratedImu(calibrating, tg) ==
    [accel_scale |->
        RMul(RDiv(StandardGravity, RAbs(calibrating.accel)), RInt(calibrating.count)),
     accel_correction |->
        OrIdentity(FromAxisAngle(Cross(calibrating.accel, tg), RZero)),
     angular_velocity_bias |->
        RDiv(calibrating.angular_velocity, RInt(calibrating.count))]

\* the new records added to the records of the blackboard
CollectedIntoOld(map, tg) ==
    [e \in DOMAIN map \cup DOMAIN calibrations |->
        IF e \in DOMAIN map THEN CalibratedImu(map[e], tg) ELSE calibrations[e]]

\* bb.calibrations = imu_map.into_iter().map(..).collect()
Collected(map, tg) == [e \in DOMAIN map |-> CalibratedImu(map[e], tg)]

\* the sleep that is ready after one second
SleepElapsedEarly == calib_elapsed >= 1

\* tokio::time::sleep(bb.calibration_duration) is ready
SleepElapsed == calib_elapsed = calibration_duration

CalibTick ==
    /\ stage = "Calibrating"
    /\ calib_elapsed < calibration_duration
    /\ calib_elapsed' = calib_elapsed + 1
    /\ UNCHANGED <<stage, pc, waited, delta, imu_map, total_gravity, calibrations,
                   start_orientation, recalibrate_sub, imu_sub, position_sub,
                   velocity_sub, orientation_sub, particles,
                   linear_acceleration_std_devs, angular_velocity_std_devs,
                   estimate, robot_base, frames_sent, calib_frames_sent,
                   recal_sent, iters, pub_count, arm, obs>>
    /\ UNCHANGED <<closed, newest, reported, cmVars, btVars, scanVars, auxVars>>

CalibImu ==
    /\ stage = "Calibrating"
    /\ imu_sub # SubEmpty
    /\ LET imu == imu_sub[1]
       IN  /\ total_gravity' = RAdd(total_gravity, imu.acceleration)
           /\ imu_map' = CalibrateAccumulate(imu_map, imu)
    /\ imu_sub' = SubEmpty
    /\ UNCHANGED <<stage, pc, calib_elapsed, waited, delta, calibrations,
                   start_orientation, recalibrate_sub, position_sub,
                   velocity_sub, orientation_sub, particles,
                   linear_acceleration_std_devs, angular_velocity_std_devs,
                   estimate, robot_base, frames_sent, calib_frames_sent,
                   recal_sent, iters, pub_count, arm, obs>>
    /\ newest' = [newest EXCEPT !["imu"] = <<>>]
    /\ UNCHANGED <<closed, reported, cmVars, btVars, scanVars, auxVars>>

\* the sleep has elapsed: the calibrations are applied and the stage returns;
\* the transition set in Localizer::run starts run_localizer
CalibDone ==
    /\ stage = "Calibrating"
    /\ SleepElapsed
    /\ calibrations' = Collected(imu_map, total_gravity)
    /\ recalibrate_sub' = try_recv(recalibrate_sub)
    /\ start_orientation' =
          OrIdentity(FromAxisAngle(Cross(total_gravity, RNeg(ROne)), RZero))
    /\ stage' = "Running"
    /\ pc' = "init"
    \* imu_map and total_gravity are locals of the stage
    /\ imu_map' = EmptyMap
    /\ total_gravity' = RZero
    /\ calib_frames_sent' = calib_frames_sent
    \* a frame still unconsumed is left to the steady-state stage
    /\ frames_sent' = IF imu_sub = SubEmpty THEN frames_sent ELSE frames_sent + 1
    /\ UNCHANGED <<calib_elapsed, waited, delta, imu_sub,
                   position_sub, velocity_sub, orientation_sub, particles,
                   linear_acceleration_std_devs, angular_velocity_std_devs,
                   estimate, robot_base,
                   recal_sent, iters, pub_count, arm, obs>>
    /\ UNCHANGED <<closed, newest, reported, cmVars, btVars, scanVars, auxVars>>

\* ---- run_localizer: the particles
Channels == {"position", "orientation", "linear_velocity", "angular_velocity",
             "linear_acceleration"}
WeightOf(c) == c \o "_weight"
Indices == 1..point_count

\* the distance of an observation to a particle's value: magnitude of the
\* difference of two vectors, angle_to of two rotations
Dist(a, b) == RAbs(RSub(a, b))

\* sqrt of a variance of the model
Sqrt(a) == IF a = RZero \/ a = ROne THEN a ELSE NaN

\* utils::normal(mean, std_dev, x): the density of N(mean, std_dev) at x, as
\* a step function: 1 at the mean, 1/5 within one std_dev, 0 (underflow)
\* farther away and at infinity, NaN at NaN
normal(mean, std_dev, x) ==
    IF IsNaN(x) \/ IsNaN(std_dev) THEN NaN
    ELSE IF x = mean THEN ROne
    ELSE IF RLeq(RAbs(RSub(x, mean)), std_dev) THEN <<1, 5>>
    ELSE RZero

\* the sample of Normal(0, std_dev) scaled on a random unit vector, or the
\* angle of a random axis-angle rotation: nothing when std_dev is 0, one
\* deviation otherwise
Noise(std_dev) == IF std_dev = RZero THEN {RZero} ELSE {std_dev}

RECURSIVE SumTo(_, _, _)
SumTo(ps, w, n) == IF n = 0 THEN RZero ELSE RAdd(SumTo(ps, w, n - 1), ps[n][w])
\* the sum of the particles' weights of channel c
WeightSum(ps, c) == SumTo(ps, WeightOf(c), Len(ps))

\* the snap that reaches the first particle only
SnapFirst(ps, c, v) ==
    [i \in Indices |->
        IF i = 1 THEN [ps[i] EXCEPT ![c] = v, ![WeightOf(c)] = default_weight] ELSE ps[i]]

\* variance == 0: every particle takes the observed value and the default weight
Snap(ps, c, v) ==
    [i \in Indices |-> [ps[i] EXCEPT ![c] = v, ![WeightOf(c)] = default_weight]]

\* weight *= normal(0, std_dev, distance)
Reweight(ps, c, v, std_dev) ==
    [i \in Indices |->
        [ps[i] EXCEPT ![WeightOf(c)] = RMul(@, normal(RZero, std_dev, Dist(ps[i][c], v)))]]

\* the threshold compared the wrong way round
DeprivedReversed(sum) == RLeq(minimum_unnormalized_weight, sum)

\* the threshold compared strictly
DeprivedStrict(sum) == RLt(sum, minimum_unnormalized_weight)

\* if sum <= bb.minimum_unnormalized_weight
Deprived(sum) == RLeq(sum, minimum_unnormalized_weight)

\* (particles.len() * undeprivation_factor).ceil()
DeprivationCount(n) == RCeil(RMul(RInt(n), undeprivation_factor))

\* par_sort_unstable_by on the channel's weight: every ascending order of the
\* particles (ties in any order)
SortedByWeight(ps, c) ==
    LET w == WeightOf(c)
        perms == {f \in [Indices -> Indices] : \A i, j \in Indices : i # j => f[i] # f[j]}
    IN  {[i \in Indices |-> ps[f[i]]] : f \in
            {g \in perms : \A i, j \in Indices : i < j => RLeq(ps[g[i]][w], ps[g[j]][w])}}

\* the last `count` particles of the sorted cloud
TakenFromEnd(ps, count) == {i \in Indices : i > Len(ps) - count}

\* par_iter_mut().take(count): the indices the recovery rewrites
Taken(ps, count) == {i \in Indices : i <= count}

\* the recovery's rewrite of the taken particles; noise[i] is particle i's draw
Perturb(ps, c, v, count, corrective_weight, noise) ==
    [i \in Indices |->
        IF i \in Taken(ps, count)
        THEN [ps[i] EXCEPT ![c] = RAdd(v, noise[i]),
                           ![WeightOf(c)] = RAdd(@, corrective_weight)]
        ELSE ps[i]]

\* the division applied to the weights of every channel
NormalizeEveryChannel(ps, c, sum) ==
    [i \in Indices |->
        [f \in DOMAIN ps[i] |->
            IF f \in {WeightOf(d) : d \in Channels} THEN RDiv(ps[i][f], sum) ELSE ps[i][f]]]

\* weight /= sum
Normalize(ps, c, sum) ==
    [i \in Indices |-> [ps[i] EXCEPT ![WeightOf(c)] = RDiv(@, sum)]]

\* One observation update of channel c with value v: the set of possible
\* outcomes, each the new particles and a report of what the update did.
Observe(ps, c, v, variance) ==
    LET std_dev == Sqrt(variance)
    IN  IF variance = RZero
        THEN {[particles |-> Snap(ps, c, v),
               report |-> [channel |-> c, value |-> v, snap |-> TRUE, sum |-> ROne,
                           recovered |-> FALSE, rewritten |-> {}, weights |-> <<>>]]}
        ELSE
          LET mult == Reweight(ps, c, v, std_dev)
              sum == WeightSum(mult, c)
          IN  IF Deprived(sum)
              THEN
                LET count == DeprivationCount(Len(ps))
                    corrective_weight ==
                        RDiv(RSub(minimum_unnormalized_weight, sum), RInt(count))
                IN  {[particles |->
                         Normalize(Perturb(sorted, c, v, count, corrective_weight, noise),
                                   c, minimum_unnormalized_weight),
                      report |-> [channel |-> c, value |-> v, snap |-> FALSE, sum |-> sum,
                                  recovered |-> TRUE,
                                  rewritten |-> Taken(sorted, count),
                                  weights |-> [i \in Indices |-> sorted[i][WeightOf(c)]]]] :
                       sorted \in SortedByWeight(mult, c),
                       noise \in [Taken(ps, count) -> Noise(std_dev)]}
              ELSE {[particles |-> Normalize(mult, c, sum),
                     report |-> [channel |-> c, value |-> v, snap |-> FALSE, sum |-> sum,
                                 recovered |-> FALSE, rewritten |-> {},
                                 weights |-> [i \in Indices |-> mult[i][WeightOf(c)]]]]}

\* UnorderedQueue::push on a full queue of fixed length: the oldest leaves
QueuePush(q, x) == Append(Tail(q), x)

\* ---- run_localizer: the prologue creates the particle cloud
\* random_unit_vector scaled by a sample of Normal(0, start_std_dev): the
\* draws of the position and of the linear velocity
StartNoise == {RZero, ROne}
StartVelocities == {ROne}

\* the particles created with the weight of a single particle
NewParticlesWholeWeight ==
    [position : {RAdd(robot_base.position, n) : n \in StartNoise},
     position_weight : {ROne},
     orientation : {start_orientation},
     orientation_weight : {ROne},
     linear_velocity : StartVelocities,
     linear_velocity_weight : {ROne},
     angular_velocity : {RZero},
     angular_velocity_weight : {ROne},
     linear_acceleration : {gravity},
     linear_acceleration_weight : {ROne}]

NewParticles ==
    [position : {RAdd(robot_base.position, n) : n \in StartNoise},
     position_weight : {default_weight},
     orientation : {start_orientation},
     orientation_weight : {default_weight},
     linear_velocity : StartVelocities,
     linear_velocity_weight : {default_weight},
     angular_velocity : {RZero},
     angular_velocity_weight : {default_weight},
     linear_acceleration : {gravity},
     linear_acceleration_weight : {default_weight}]

locUnchangedByLoop == <<calib_elapsed, imu_map, total_gravity, calibrations,
                        start_orientation, frames_sent, calib_frames_sent, recal_sent>>

RunInit ==
    /\ stage = "Running"
    /\ pc = "init"
    /\ particles' \in [Indices -> NewParticles]
    /\ waited' = 0
    /\ pc' = "select"
    /\ UNCHANGED <<stage, delta, recalibrate_sub, imu_sub, position_sub, velocity_sub,
                   orientation_sub, linear_acceleration_std_devs,
                   angular_velocity_std_devs, estimate, robot_base, iters, pub_count,
                   arm, obs>>
    /\ UNCHANGED locUnchangedByLoop
    /\ reported' = {}
    /\ UNCHANGED <<closed, newest, cmVars, btVars, scanVars, auxVars>>

\* time passes while the select waits; the sleep arm is due at max_delta
Tick ==
    /\ stage = "Running"
    /\ pc = "select"
    /\ waited < max_delta
    /\ waited' = waited + 1
    /\ UNCHANGED <<stage, pc, delta, recalibrate_sub, imu_sub, position_sub,
                   velocity_sub, orientation_sub, particles,
                   linear_acceleration_std_devs, angular_velocity_std_devs,
                   estimate, robot_base, iters, pub_count, arm, obs>>
    /\ UNCHANGED locUnchangedByLoop
    /\ UNCHANGED <<closed, newest, reported, cmVars, btVars, scanVars, auxVars>>

Selecting == stage = "Running" /\ pc = "select" /\ iters < MaxIters

\* () = bb.recalibrate_sub.recv() => break; the transition set in
\* Localizer::run starts calibrate_localizer
RecalibrateArm ==
    /\ stage = "Running"
    /\ pc = "select"
    /\ recalibrate_sub # SubEmpty
    /\ recalibrate_sub' = SubEmpty
    /\ stage' = "Calibrating"
    /\ pc' = "calibrate"
    /\ arm' = "recalibrate"
    /\ obs' = <<>>
    \* the particles and the elapsed time are locals of the stage
    /\ particles' = <<>>
    /\ waited' = 0
    \* calibrate_localizer starts a new sleep
    /\ calib_elapsed' = 0
    /\ UNCHANGED <<iters, imu_map, total_gravity, delta, calibrations,
                   start_orientation, imu_sub,
                   position_sub, velocity_sub, orientation_sub,
                   linear_acceleration_std_devs, angular_velocity_std_devs,
                   estimate, robot_base, frames_sent, calib_frames_sent,
                   recal_sent, pub_count>>
    /\ reported' = {}
    /\ UNCHANGED <<closed, newest, cmVars, btVars, scanVars, auxVars>>

\* what every arm but the recalibration arm leaves for the rest of the iteration
AfterArm(name) ==
    /\ pc' = "predict"
    /\ delta' = RInt(waited)
    /\ arm' = name
    /\ UNCHANGED <<stage, waited, recalibrate_sub, estimate, robot_base, iters, pub_count>>
    /\ UNCHANGED locUnchangedByLoop

\* the sleep that is never ready
TimeoutNever == FALSE

\* tokio::time::sleep(bb.max_delta) is ready
TimeoutDue == waited = max_delta

\* () = tokio::time::sleep(bb.max_delta) => {}
TimeoutArm ==
    /\ Selecting
    /\ TimeoutDue
    /\ obs' = <<>>
    /\ AfterArm("timeout")
    /\ UNCHANGED <<imu_sub, position_sub, velocity_sub, orientation_sub, particles,
                   linear_acceleration_std_devs, angular_velocity_std_devs>>
    /\ UNCHANGED <<closed, newest, reported, cmVars, btVars, scanVars, auxVars>>

\* a rotation applied to a vector of the model's axis: a half turn negates it
Rotate(rot, v) == RMul(rot, v)

\* the IMU frame in the robot's frame, calibrated when the IMU was calibrated
ImuCorrected(frame) ==
    LET e == frame.robot_element
        ang0 == Rotate(ElementRot(e), frame.angular_velocity)
        acc0 == Rotate(ElementRot(e), frame.acceleration)
    IN  IF e \in DOMAIN calibrations
        THEN [angular_velocity |-> RSub(ang0, calibrations[e].angular_velocity_bias),
              acceleration |->
                  RMul(Rotate(IF calibrations[e].accel_correction = RZero
                              THEN ROne ELSE RNeg(ROne), acc0),
                       calibrations[e].accel_scale)]
        ELSE [angular_velocity |-> ang0, acceleration |-> acc0]

ImuArm ==
    /\ Selecting
    /\ imu_sub # SubEmpty
    /\ LET frame == imu_sub[1]
           corrected == ImuCorrected(frame)
       IN  /\ linear_acceleration_std_devs' =
                 QueuePush(linear_acceleration_std_devs, Sqrt(frame.acceleration_variance))
           /\ angular_velocity_std_devs' =
                 QueuePush(angular_velocity_std_devs, Sqrt(frame.angular_velocity_variance))
           /\ \E first \in Observe(particles, "linear_acceleration",
                                   corrected.acceleration, frame.acceleration_variance) :
              \E second \in Observe(first.particles, "angular_velocity",
                                    corrected.angular_velocity,
                                    frame.angular_velocity_variance) :
                 /\ particles' = second.particles
                 /\ obs' = <<first.report, second.report>>
    /\ imu_sub' = SubEmpty
    /\ AfterArm("imu")
    /\ UNCHANGED <<position_sub, velocity_sub, orientation_sub>>
    /\ newest' = [newest EXCEPT !["imu"] = <<>>]
    /\ UNCHANGED <<closed, reported, cmVars, btVars, scanVars, auxVars>>

PositionArm ==
    /\ Selecting
    /\ position_sub # SubEmpty
    /\ LET frame == position_sub[1]
           e == frame.robot_element
           \* isometry_from_base().inverse() * frame.position
           position == Rotate(ElementRot(e), RSub(frame.position, ElementTrans(e)))
       IN  \E out \in Observe(particles, "position", position, frame.variance) :
              /\ particles' = out.particles
              /\ obs' = <<out.report>>
    /\ position_sub' = SubEmpty
    /\ AfterArm("position")
    /\ UNCHANGED <<imu_sub, velocity_sub, orientation_sub,
                   linear_acceleration_std_devs, angular_velocity_std_devs>>
    /\ newest' = [newest EXCEPT !["position"] = <<>>]
    /\ UNCHANGED <<closed, reported, cmVars, btVars, scanVars, auxVars>>

VelocityArm ==
    /\ Selecting
    /\ velocity_sub # SubEmpty
    /\ LET frame == velocity_sub[1]
           velocity == Rotate(ElementRot(frame.robot_element), frame.velocity)
       IN  \E out \in Observe(particles, "linear_velocity", velocity, frame.variance) :
              /\ particles' = out.particles
              /\ obs' = <<out.report>>
    /\ velocity_sub' = SubEmpty
    /\ AfterArm("velocity")
    /\ UNCHANGED <<imu_sub, position_sub, orientation_sub,
                   linear_acceleration_std_devs, angular_velocity_std_devs>>
    /\ newest' = [newest EXCEPT !["velocity"] = <<>>]
    /\ UNCHANGED <<closed, reported, cmVars, btVars, scanVars, auxVars>>

OrientationArm ==
    /\ Selecting
    /\ orientation_sub # SubEmpty
    /\ LET frame == orientation_sub[1]
           \* rotation.inverse() * frame.orientation
           orientation == RSub(frame.orientation, ElementAngle(frame.robot_element))
       IN  \E out \in Observe(particles, "orientation", orientation, frame.variance) :
              /\ particles' = out.particles
              /\ obs' = <<out.report>>
    /\ orientation_sub' = SubEmpty
    /\ AfterArm("orientation")
    /\ UNCHANGED <<imu_sub, position_sub, velocity_sub,
                   linear_acceleration_std_devs, angular_velocity_std_devs>>
    /\ newest' = [newest EXCEPT !["orientation"] = <<>>]
    /\ UNCHANGED <<closed, reported, cmVars, btVars, scanVars, auxVars>>

\* ---- run_localizer: the prediction step
\* the table of one channel: each particle's value with the running weight
\* before it
CdfTable(ps, c) == [i \in DOMAIN ps |-> <<ps[i][c], SumTo(ps, WeightOf(c), i - 1)>>]

\* assert!((running_weight - 1).abs() < 1e-5)
CdfAssertion(ps, c) == RLt(RAbs(RSub(WeightSum(ps, c), ROne)), <<1, 100000>>)

\* rng.gen_range(0.0..1.0)
Samples == {RZero, <<1, 2>>}

Max(S) == CHOOSE x \in S : \A y \in S : y <= x

\* the table iterated from the front: the first entry with sample >= weight
ForwardScan(table, sample) ==
    IF \E i \in DOMAIN table : RLeq(table[i][2], sample)
    THEN CHOOSE i \in DOMAIN table :
            /\ RLeq(table[i][2], sample)
            /\ \A j \in DOMAIN table : RLeq(table[j][2], sample) => i <= j
    ELSE 0

\* the table iterated in reverse: the first entry with sample >= weight; 0
\* when no entry is selected
ReverseScan(table, sample) ==
    Max({0} \cup {i \in DOMAIN table : RLeq(table[i][2], sample)})

Picks(table) == {ReverseScan(table, u) : u \in Samples}

RECURSIVE QueueSum(_)
QueueSum(q) == IF q = <<>> THEN RZero ELSE RAdd(Head(q), QueueSum(Tail(q)))

\* the states one particle can take in the prediction step, given the tables
Predicted(p, ps, dt) ==
    LET velT == CdfTable(ps, "linear_velocity")
        accT == CdfTable(ps, "linear_acceleration")
        posT == CdfTable(ps, "position")
        oriT == CdfTable(ps, "orientation")
        angT == CdfTable(ps, "angular_velocity")
        acc_std == RDiv(QueueSum(linear_acceleration_std_devs),
                        RInt(linear_acceleration_std_dev_count))
        ang_std == RDiv(QueueSum(angular_velocity_std_devs),
                        RInt(angular_velocity_std_dev_count))
        vels == {IF i = 0 \/ j = 0 THEN p.linear_velocity
                 ELSE RAdd(velT[i][1], RMul(RSub(accT[j][1], gravity), dt)) :
                 i \in Picks(velT), j \in Picks(accT)}
        poss == {IF i = 0 \/ j = 0 THEN p.position
                 ELSE RAdd(posT[i][1], RMul(velT[j][1], dt)) :
                 i \in Picks(posT), j \in Picks(velT)}
        oris == {IF i = 0 \/ j = 0 THEN p.orientation
                 ELSE RAdd(RMul(angT[j][1], dt), oriT[i][1]) :
                 i \in Picks(oriT), j \in Picks(angT)}
        accs == {RAdd(p.linear_acceleration, n) : n \in Noise(acc_std)}
        angs == {RAdd(n, p.angular_velocity) : n \in Noise(ang_std)}
    IN  {[p EXCEPT !.linear_velocity = v, !.position = x, !.orientation = o,
                   !.linear_acceleration = a, !.angular_velocity = w] :
            v \in vels, x \in poss, o \in oris, a \in accs, w \in angs}

\* the particles updated one after the other, each table rebuilt from the
\* particles already updated
RECURSIVE PredictedInPlace(_, _, _)
PredictedInPlace(ps, dt, n) ==
    IF n = 0 THEN {<<>>}
    ELSE UNION {{Append(head, last) :
                    last \in Predicted(ps[n], head \o SubSeq(ps, n, Len(ps)), dt)} :
                head \in PredictedInPlace(ps, dt, n - 1)}

RECURSIVE PredictedClouds(_, _, _)
PredictedClouds(ps, dt, n) ==
    IF n = 0 THEN {<<>>}
    ELSE {Append(head, last) : head \in PredictedClouds(ps, dt, n - 1),
                               last \in Predicted(ps[n], ps, dt)}

Predict ==
    /\ stage = "Running"
    /\ pc = "predict"
    /\ IF \A c \in Channels : CdfAssertion(particles, c)
       THEN /\ particles' \in PredictedClouds(particles, delta, point_count)
            /\ pc' = "aggregate"
            /\ stage' = stage
       ELSE \* an assertion fails and the task panics
            /\ stage' = "Panicked"
            /\ pc' = "panicked"
            /\ particles' = particles
    /\ UNCHANGED <<waited, delta, recalibrate_sub, imu_sub, position_sub, velocity_sub,
                   orientation_sub, linear_acceleration_std_devs,
                   angular_velocity_std_devs, estimate, robot_base, iters, pub_count,
                   arm, obs>>
    /\ UNCHANGED locUnchangedByLoop
    /\ UNCHANGED <<closed, newest, reported, cmVars, btVars, scanVars, auxVars>>

\* ---- run_localizer: aggregation and publication
RECURSIVE ValueSum(_, _, _)
ValueSum(ps, c, n) == IF n = 0 THEN RZero ELSE RAdd(ValueSum(ps, c, n - 1), ps[n][c])
Mean(ps, c) == RDiv(ValueSum(ps, c, Len(ps)), RInt(point_count))

\* utils::quat_mean: the average rotation, an error when it is degenerate
QuatMean(ps, c) ==
    LET m == Mean(ps, c)
    IN  IF IsFinite(m) THEN [ok |-> TRUE, value |-> m] ELSE [ok |-> FALSE, value |-> NaN]

\* the aggregation whose orientation falls back to the default rotation, as
\* the angular velocity's does
AggregateDefaultOrientation ==
    /\ stage = "Running"
    /\ pc = "aggregate"
    /\ estimate' =
          [position |-> Mean(particles, "position"),
           linear_velocity |-> Mean(particles, "linear_velocity"),
           orientation |->
               LET q == QuatMean(particles, "orientation")
               IN  IF q.ok THEN q.value ELSE RZero]
    /\ pc' = "publish"
    /\ UNCHANGED <<stage, waited, delta, recalibrate_sub, imu_sub, position_sub,
                   velocity_sub, orientation_sub, particles,
                   linear_acceleration_std_devs, angular_velocity_std_devs,
                   robot_base, iters, pub_count, arm, obs>>
    /\ UNCHANGED locUnchangedByLoop
    /\ UNCHANGED <<closed, newest, reported, cmVars, btVars, scanVars, auxVars>>

Aggregate ==
    /\ stage = "Running"
    /\ pc = "aggregate"
    /\ estimate' =
          [position |-> Mean(particles, "position"),
           linear_velocity |-> Mean(particles, "linear_velocity"),
           orientation |->
               LET q == QuatMean(particles, "orientation")
               IN  IF q.ok THEN q.value ELSE robot_base.orientation]
    /\ pc' = "publish"
    /\ UNCHANGED <<stage, waited, delta, recalibrate_sub, imu_sub, position_sub,
                   velocity_sub, orientation_sub, particles,
                   linear_acceleration_std_devs, angular_velocity_std_devs,
                   robot_base, iters, pub_count, arm, obs>>
    /\ UNCHANGED locUnchangedByLoop
    /\ UNCHANGED <<closed, newest, reported, cmVars, btVars, scanVars, auxVars>>

\* set_isometry, set_linear_velocity, start += delta_duration; the loop goes
\* back to its select
Publish ==
    /\ stage = "Running"
    /\ pc = "publish"
    /\ robot_base' = estimate
    /\ pub_count' = pub_count + 1
    /\ iters' = iters + 1
    /\ waited' = 0
    /\ delta' = RZero
    /\ arm' = "none"
    /\ obs' = <<>>
    /\ pc' = "select"
    /\ UNCHANGED <<stage, recalibrate_sub, imu_sub, position_sub, velocity_sub,
                   orientation_sub, particles, linear_acceleration_std_devs,
                   angular_velocity_std_devs, estimate>>
    /\ UNCHANGED locUnchangedByLoop
    /\ UNCHANGED <<closed, newest, reported, cmVars, btVars, scanVars, auxVars>>

\* ---- the environment: sensors publish frames, an operator asks to recalibrate
locUnchangedBySend == <<stage, pc, calib_elapsed, waited, delta, imu_map, total_gravity,
                        calibrations, start_orientation, particles,
                        linear_acceleration_std_devs, angular_velocity_std_devs,
                        estimate, robot_base, iters, pub_count, arm, obs>>

\* the localizer task is suspended: in calibrate_localizer's select or in
\* run_localizer's select
Awaiting == stage = "Calibrating" \/ (stage = "Running" /\ pc = "select")

SendImu(budget) ==
    /\ "imu" \notin closed
    /\ Awaiting
    /\ \E frame \in ImuFrames :
         /\ imu_sub' = SubPush(imu_sub, frame)
         /\ newest' = [newest EXCEPT !["imu"] = <<frame>>]
         /\ reported' = IF stage = "Calibrating"
                        THEN reported \cup {frame.robot_element}
                        ELSE reported
    /\ IF stage = "Calibrating"
       THEN /\ calib_frames_sent < MaxCalibFrames
            /\ calib_frames_sent' = calib_frames_sent + 1
            /\ frames_sent' = frames_sent
       ELSE /\ stage = "Running"
            /\ frames_sent < budget
            /\ frames_sent' = frames_sent + 1
            /\ calib_frames_sent' = calib_frames_sent
    /\ UNCHANGED <<recalibrate_sub, position_sub, velocity_sub, orientation_sub, recal_sent>>
    /\ UNCHANGED locUnchangedBySend
    /\ UNCHANGED <<closed, cmVars, btVars, scanVars, auxVars>>

SendPosition(budget) ==
    /\ "position" \notin closed
    /\ stage = "Running"
    /\ pc = "select"
    /\ frames_sent < budget
    /\ \E frame \in PositionFrames :
         /\ position_sub' = SubPush(position_sub, frame)
         /\ newest' = [newest EXCEPT !["position"] = <<frame>>]
    /\ frames_sent' = frames_sent + 1
    /\ UNCHANGED <<recalibrate_sub, imu_sub, velocity_sub, orientation_sub,
                   calib_frames_sent, recal_sent>>
    /\ UNCHANGED locUnchangedBySend
    /\ UNCHANGED <<closed, reported, cmVars, btVars, scanVars, auxVars>>

SendVelocity(budget) ==
    /\ "velocity" \notin closed
    /\ stage = "Running"
    /\ pc = "select"
    /\ frames_sent < budget
    /\ \E frame \in VelocityFrames :
         /\ velocity_sub' = SubPush(velocity_sub, frame)
         /\ newest' = [newest EXCEPT !["velocity"] = <<frame>>]
    /\ frames_sent' = frames_sent + 1
    /\ UNCHANGED <<recalibrate_sub, imu_sub, position_sub, orientation_sub,
                   calib_frames_sent, recal_sent>>
    /\ UNCHANGED locUnchangedBySend
    /\ UNCHANGED <<closed, reported, cmVars, btVars, scanVars, auxVars>>

SendOrientation(budget) ==
    /\ "orientation" \notin closed
    /\ stage = "Running"
    /\ pc = "select"
    /\ frames_sent < budget
    /\ \E frame \in OrientationFrames :
         /\ orientation_sub' = SubPush(orientation_sub, frame)
         /\ newest' = [newest EXCEPT !["orientation"] = <<frame>>]
    /\ frames_sent' = frames_sent + 1
    /\ UNCHANGED <<recalibrate_sub, imu_sub, position_sub, velocity_sub,
                   calib_frames_sent, recal_sent>>
    /\ UNCHANGED locUnchangedBySend
    /\ UNCHANGED <<closed, reported, cmVars, btVars, scanVars, auxVars>>

\* an orientation source reports a rotation with a NaN component
DegenerateOrientationFrames ==
    [orientation : {NaN}, variance : {RZero}, robot_element : {CameraElement}]
SendDegenerateOrientation(budget) ==
    /\ "orientation" \notin closed
    /\ stage = "Running"
    /\ pc = "select"
    /\ frames_sent < budget
    /\ \E frame \in DegenerateOrientationFrames :
         /\ orientation_sub' = SubPush(orientation_sub, frame)
         /\ newest' = [newest EXCEPT !["orientation"] = <<frame>>]
    /\ frames_sent' = frames_sent + 1
    /\ UNCHANGED <<recalibrate_sub, imu_sub, position_sub, velocity_sub,
                   calib_frames_sent, recal_sent>>
    /\ UNCHANGED locUnchangedBySend
    /\ UNCHANGED <<closed, reported, cmVars, btVars, scanVars, auxVars>>

\* the last publisher of a sensor channel is dropped
SensorChannels == {"imu", "position", "velocity", "orientation"}
CloseChannel ==
    /\ \E channel \in SensorChannels \ closed : closed' = closed \cup {channel}
    /\ UNCHANGED <<locState, newest, reported, cmVars, btVars, scanVars, auxVars>>

SendRecalibrate ==
    /\ Awaiting
    /\ recal_sent < MaxRecal
    /\ recalibrate_sub' = SubPush(recalibrate_sub, TRUE)
    /\ recal_sent' = recal_sent + 1
    /\ UNCHANGED <<imu_sub, position_sub, velocity_sub, orientation_sub, frames_sent,
                   calib_frames_sent>>
    /\ UNCHANGED locUnchangedBySend
    /\ UNCHANGED <<closed, newest, reported, cmVars, btVars, scanVars, auxVars>>

\* ---- the localizer from Localizer::new and Localizer::run
IdentityPose == [position |-> RZero, orientation |-> RZero, linear_velocity |-> RZero]

LocInit ==
    /\ stage = "Calibrating"
    /\ pc = "calibrate"
    /\ calib_elapsed = 0
    /\ waited = 0
    /\ delta = RZero
    /\ imu_map = EmptyMap
    /\ total_gravity = RZero
    /\ calibrations = EmptyMap
    /\ start_orientation = RZero
    /\ recalibrate_sub = SubEmpty
    /\ imu_sub = SubEmpty
    /\ position_sub = SubEmpty
    /\ velocity_sub = SubEmpty
    /\ orientation_sub = SubEmpty
    /\ particles = <<>>
    /\ linear_acceleration_std_devs = [i \in 1..linear_acceleration_std_dev_count |-> RZero]
    /\ angular_velocity_std_devs = [i \in 1..angular_velocity_std_dev_count |-> RZero]
    /\ estimate = IdentityPose
    /\ robot_base = IdentityPose
    /\ frames_sent = 0
    /\ calib_frames_sent = 0
    /\ recal_sent = 0
    /\ iters = 0
    /\ pub_count = 0
    /\ arm = "none"
    /\ obs = <<>>
    /\ closed = {}
    /\ newest = [channel \in {"imu", "position", "velocity", "orientation"} |-> <<>>]
    /\ reported = {}

\* the steps of the localizer task
LocStep ==
    \/ CalibTick
    \/ CalibImu
    \/ CalibDone
    \/ RunInit
    \/ Tick
    \/ TimeoutArm
    \/ ImuArm
    \/ PositionArm
    \/ VelocityArm
    \/ OrientationArm
    \/ Predict
    \/ Aggregate
    \/ Publish

\* -------------------------------------------------------------- costmap
\* ---- configuration: CostmapGenerator::window_length and the resolution
\* given to create_points_sub, in metres per cell
window_length == 2
resolution == <<1, 10>>

\* ---- points the depth sources can send, in metres
MaxPoints == 3
MaxBatches == 3
PointChoices ==
    { [x |-> RZero,       y |-> ROne,    z |-> RZero],
      [x |-> <<1, 1000>>, y |-> <<6, 5>>, z |-> RZero],
      [x |-> <<1, 2>>,    y |-> RZero,   z |-> RZero],
      [x |-> RZero,       y |-> RZero,   z |-> <<1, 10>>],
      [x |-> RZero,       y |-> RZero,   z |-> <<1, 2>>] }
Batches == UNION {[1..n -> PointChoices] : n \in 0..MaxPoints}

\* ---- create_points_sub
\* the resolutions a caller can ask for
Resolutions == {RZero, resolution}

\* the check that lets every resolution through
ResolutionAcceptedAlways(res) == TRUE

\* assert!(resolution != N::zero())
ResolutionAccepted(res) == res # RZero

\* the call of create_points_sub: the assertion panics in the caller, or the
\* subscription is returned
CreatePointsSub ==
    /\ points_sub = "none"
    /\ \E res \in Resolutions :
         /\ requested_resolution' = res
         /\ points_sub' = IF ResolutionAccepted(res) THEN "created" ELSE "rejected"
    /\ UNCHANGED <<costmap_frames, frame_index, octree_sub, costmap_pub, gen_pc,
                   rasterizer, batches_sent, received, last_batch_len>>
    /\ UNCHANGED <<locVars, btVars, scanVars, auxVars>>

\* PointTransformer for NoTransform
NoTransform(point) == point

\* f.round(): to the nearest integer, halves away from zero
Round(a) == Sign(a[1]) * ((2 * Abs(a[1]) + a[2]) \div (2 * a[2]))

\* the grid point and the height of a point
GridPoint(point) ==
    LET p == NoTransform(point)
    IN  [x |-> Round(RDiv(p.x, resolution)),
         y |-> Round(RDiv(p.z, resolution)),
         height |-> p.y]

\* the scan that never raises max_height past the first point's height
RECURSIVE BoundingBoxFirstMax(_, _, _)
BoundingBoxFirstMax(points, i, b) ==
    IF i > Len(points) THEN b
    ELSE LET pt == points[i]
         IN  BoundingBoxFirstMax(points, i + 1,
                 [min_x |-> IF pt.x < b.min_x THEN pt.x ELSE b.min_x,
                  max_x |-> IF pt.x < b.min_x THEN b.max_x
                            ELSE IF pt.x > b.max_x THEN pt.x ELSE b.max_x,
                  min_y |-> IF pt.y < b.min_y THEN pt.y ELSE b.min_y,
                  max_y |-> IF pt.y < b.min_y THEN b.max_y
                            ELSE IF pt.y > b.max_y THEN pt.y ELSE b.max_y,
                  min_height |-> IF RLt(pt.height, b.min_height)
                                 THEN pt.height ELSE b.min_height,
                  max_height |-> b.max_height])

\* the bounding box and the height range, scanned as the code scans them
RECURSIVE BoundingBox(_, _, _)
BoundingBox(points, i, b) ==
    IF i > Len(points) THEN b
    ELSE LET pt == points[i]
         IN  BoundingBox(points, i + 1,
                 [min_x |-> IF pt.x < b.min_x THEN pt.x ELSE b.min_x,
                  max_x |-> IF pt.x < b.min_x THEN b.max_x
                            ELSE IF pt.x > b.max_x THEN pt.x ELSE b.max_x,
                  min_y |-> IF pt.y < b.min_y THEN pt.y ELSE b.min_y,
                  max_y |-> IF pt.y < b.min_y THEN b.max_y
                            ELSE IF pt.y > b.max_y THEN pt.y ELSE b.max_y,
                  min_height |-> IF RLt(pt.height, b.min_height)
                                 THEN pt.height ELSE b.min_height,
                  max_height |-> IF RLt(pt.height, b.min_height) THEN b.max_height
                                 ELSE IF RLt(b.max_height, pt.height)
                                      THEN pt.height ELSE b.max_height])

\* usize::ilog2 of a positive number and usize::next_power_of_two
RECURSIVE ilog2(_)
ilog2(n) == IF n < 2 THEN 0 ELSE 1 + ilog2(n \div 2)

RECURSIVE Pow2(_)
Pow2(n) == IF n = 0 THEN 1 ELSE 2 * Pow2(n - 1)

RECURSIVE NextPow2From(_, _)
NextPow2From(n, p) == IF p >= n THEN p ELSE NextPow2From(n, 2 * p)
next_power_of_two(n) == NextPow2From(n, 1)

QuadtreeDepth(max_range) == next_power_of_two(ilog2(max_range))

\* Quadtree::new(depth) covers the anchors of [0, 2^depth) x [0, 2^depth)
InRegion(anchor, depth) ==
    /\ anchor[1] \in 0..(Pow2(depth) - 1)
    /\ anchor[2] \in 0..(Pow2(depth) - 1)

\* the loop over the points: modify the cell at the anchor, or insert it;
\* an insertion outside the region of the quadtree inserts nothing
RECURSIVE InsertPoints(_, _, _, _, _)
InsertPoints(points, i, b, depth, acc) ==
    IF i > Len(points) THEN acc
    ELSE LET pt == points[i]
             anchor == <<pt.x - b.min_x, pt.y - b.min_y>>
             q == acc.quadtree
             modified_count == IF anchor \in DOMAIN q THEN q[anchor].count + 1 ELSE 0
             modified == [q EXCEPT ![anchor] =
                             [total_height |-> RAdd(@.total_height, pt.height),
                              count |-> @.count + 1]]
             inserted == [a \in DOMAIN q \cup {anchor} |->
                             IF a = anchor
                             THEN [total_height |-> pt.height, count |-> 1]
                             ELSE q[a]]
         IN  InsertPoints(points, i + 1, b, depth,
                 IF modified_count = 0
                 THEN [quadtree |-> IF InRegion(anchor, depth) THEN inserted ELSE q,
                       max_density |-> Max({acc.max_density, 1})]
                 ELSE [quadtree |-> modified,
                       max_density |-> Max({acc.max_density, modified_count})])

\* the closure given to filter_map past the first point: a panic in ilog2
\* when all the points fall in one cell, a frame otherwise
Rasterize(batch) ==
         LET points == [i \in 1..Len(batch) |-> GridPoint(batch[i])]
             first == points[1]
             b == BoundingBox(points, 2,
                      [min_x |-> first.x, max_x |-> first.x,
                       min_y |-> first.y, max_y |-> first.y,
                       min_height |-> first.height, max_height |-> first.height])
             max_range == Max({b.max_x - b.min_x, b.max_y - b.min_y})
             depth == QuadtreeDepth(max_range)
             filled == InsertPoints(points, 1, b, depth,
                           [quadtree |-> EmptyMap, max_density |-> 0])
         IN  IF max_range = 0 THEN [kind |-> "panic"]
             ELSE [kind |-> "frame",
                   frame |-> [quadtree |-> filled.quadtree,
                              depth |-> depth,
                              max_density |-> filled.max_density,
                              max_height |-> b.max_height,
                              min_height |-> b.min_height,
                              resolution |-> resolution,
                              \* history: the number of points of the batch
                              \* and the longer side of the bounding box
                              points |-> Len(batch),
                              max_range |-> max_range]]

\* the closure that emits a frame without cells for an empty batch
CreatePointsNoSkip(batch) ==
    IF Len(batch) = 0
    THEN [kind |-> "frame",
          frame |-> [quadtree |-> EmptyMap, depth |-> 0, max_density |-> 0,
                     max_height |-> RZero, min_height |-> RZero,
                     resolution |-> resolution, points |-> 0, max_range |-> 0]]
    ELSE Rasterize(batch)

\* the closure given to filter_map: nothing for an empty batch
CreatePoints(batch) ==
    IF Len(batch) = 0 THEN [kind |-> "none"] ELSE Rasterize(batch)

\* the frame of every batch, computed once
FrameOf == [batch \in Batches |-> CreatePoints(batch)]

\* a depth source publishes a batch of points; the subscription rasterizes
\* it in the publishing task and queues the frame for run
SendPoints ==
    /\ points_sub = "created"
    /\ rasterizer = "ok"
    /\ gen_pc # "done"
    /\ batches_sent < MaxBatches
    /\ batches_sent' = batches_sent + 1
    /\ \E batch \in Batches :
         LET r == FrameOf[batch]
         IN  /\ last_batch_len' = Len(batch)
             /\ rasterizer' = IF r.kind = "panic" THEN "panicked" ELSE "ok"
             /\ octree_sub' = IF r.kind = "frame"
                              THEN Append(octree_sub, r.frame)
                              ELSE octree_sub
    /\ UNCHANGED <<costmap_frames, frame_index, costmap_pub, gen_pc, received,
                   points_sub, requested_resolution>>
    /\ UNCHANGED <<locVars, btVars, scanVars, auxVars>>

\* ---- CostmapGenerator::run
DefaultFrame ==
    [quadtree |-> EmptyMap, depth |-> 0, max_density |-> 0, max_height |-> RZero,
     min_height |-> RZero, resolution |-> ROne, points |-> 0, max_range |-> 0]

\* Quadtree::len
QuadtreeLen(q) == Cardinality(DOMAIN q)

RECURSIVE PointCount(_, _)
PointCount(frames, n) ==
    IF n = 0 THEN 0 ELSE QuadtreeLen(frames[n].quadtree) + PointCount(frames, n - 1)

\* the Costmap built at the top of the loop
Snapshot(frames) == [point_count |-> PointCount(frames, Len(frames)), frames |-> frames]

\* the publisher whose earlier Costmaps share the ring that run writes
SetCostmapShared(frames) == [n \in 1..(Len(costmap_pub) + 1) |-> Snapshot(frames)]

\* costmap_pub.set: the Costmap holds its own handles to the frames
SetCostmap(frames) == Append(costmap_pub, Snapshot(frames))

\* the index that never advances
NextFrameIndexStuck(i) == 0

NextFrameIndex(i) == IF i + 1 >= window_length THEN 0 ELSE i + 1

\* the start of run that publishes nothing
RunStartSilent ==
    /\ gen_pc = "start"
    /\ gen_pc' = "recv"
    /\ UNCHANGED <<costmap_frames, frame_index, octree_sub, costmap_pub, rasterizer,
                   batches_sent, received, points_sub, requested_resolution,
                   last_batch_len>>
    /\ UNCHANGED <<locVars, btVars, scanVars, auxVars>>

\* the first pass through the top of the loop, up to recv_or_closed
RunStart ==
    /\ gen_pc = "start"
    /\ costmap_pub' = SetCostmap(costmap_frames)
    /\ gen_pc' = "recv"
    /\ UNCHANGED <<costmap_frames, frame_index, octree_sub, rasterizer,
                   batches_sent, received, points_sub, requested_resolution,
                   last_batch_len>>
    /\ UNCHANGED <<locVars, btVars, scanVars, auxVars>>

\* recv_or_closed returns a frame: write it, advance the index, and publish
\* at the top of the loop
RecvFrame ==
    /\ gen_pc = "recv"
    /\ octree_sub # <<>>
    /\ LET frame == Head(octree_sub)
           written == [costmap_frames EXCEPT ![frame_index + 1] = frame]
       IN  /\ costmap_frames' = written
           /\ costmap_pub' = SetCostmap(written)
           /\ received' = Append(received, frame)
    /\ octree_sub' = Tail(octree_sub)
    /\ frame_index' = NextFrameIndex(frame_index)
    /\ UNCHANGED <<gen_pc, rasterizer, batches_sent, points_sub,
                   requested_resolution, last_batch_len>>
    /\ UNCHANGED <<locVars, btVars, scanVars, auxVars>>

\* recv_or_closed returns None: every publisher is gone and no frame is left
RecvClosed ==
    /\ gen_pc = "recv"
    /\ octree_sub = <<>>
    /\ gen_pc' = "done"
    /\ UNCHANGED <<costmap_frames, frame_index, octree_sub, costmap_pub,
                   rasterizer, batches_sent, received, points_sub,
                   requested_resolution, last_batch_len>>
    /\ UNCHANGED <<locVars, btVars, scanVars, auxVars>>

\* ---- Costmap::is_global_point_safe: the body is the constant false
is_global_point_safe(costmap, point, radius) == FALSE

CostmapInit ==
    /\ costmap_frames = [i \in 1..window_length |-> DefaultFrame]
    /\ frame_index = 0
    /\ octree_sub = <<>>
    /\ costmap_pub = <<>>
    /\ gen_pc = "start"
    /\ rasterizer = "ok"
    /\ points_sub = "none"
    /\ requested_resolution = resolution
    /\ batches_sent = 0
    /\ received = <<>>
    /\ last_batch_len = 0

CostmapStep ==
    \/ CreatePointsSub
    \/ SendPoints
    \/ RunStart
    \/ RecvFrame
    \/ RecvClosed

\* ------------------------------------------------------------- ares-bt
\* ---- the loops that are run: a condition status(*sum < n) and a body of one
\* to three children
MaxLimit == 3
MaxPasses == 4
\* "increment": |sum| { *sum += 1; Ok(()) }; "Ok" and "Err": a Status used as
\* a Behavior; "below_two": |sum| status(*sum < 2)
Children == {"increment", "Ok", "Err", "below_two"}
Bodies == UNION {[1..n -> Children] : n \in 1..3}

\* status(status: bool)
status(b) == IF b THEN "Ok" ELSE "Err"

\* Behavior::run of a child: the blackboard after it and its Status
RunChild(child, s) ==
    CASE child = "increment" -> [sum |-> s + 1, status |-> "Ok"]
      [] child = "Ok" -> [sum |-> s, status |-> "Ok"]
      [] child = "Err" -> [sum |-> s, status |-> "Err"]
      [] child = "below_two" -> [sum |-> s, status |-> status(s < 2)]

\* a body that goes on with the next child whatever the Status
AfterChildIgnoringErr(st, k, len) ==
    IF k < len THEN [pc |-> "body", child |-> k + 1, status |-> "none"]
    ELSE [pc |-> "condition", child |-> 0, status |-> "none"]

\* self.body.$num.run(blackboard)?: an Err returns at once, an Ok goes on to
\* the next child, or to the condition after the last child
AfterChild(st, k, len) ==
    IF st = "Err" THEN [pc |-> "returned", child |-> k, status |-> "Err"]
    ELSE IF k < len THEN [pc |-> "body", child |-> k + 1, status |-> "none"]
    ELSE [pc |-> "condition", child |-> 0, status |-> "none"]

\* WhileLoop { condition, body }.run(&mut sum) is called
BtStart ==
    /\ bt_pc = "idle"
    /\ bt_condition' \in 0..MaxLimit
    /\ bt_body' \in Bodies
    /\ bt_pc' = "condition"
    /\ UNCHANGED <<bt_child, bt_sum, bt_status, condition_runs, passes, pass_runs>>
    /\ UNCHANGED <<locVars, cmVars, scanVars, auxVars>>

\* while self.condition.run(blackboard).is_ok(); Ok(()) after the loop
BtCondition ==
    /\ bt_pc = "condition"
    /\ passes < MaxPasses
    /\ condition_runs' = condition_runs + 1
    /\ IF status(bt_sum < bt_condition) = "Ok"
       THEN /\ bt_pc' = "body"
            /\ bt_child' = 1
            /\ passes' = passes + 1
            /\ pass_runs' = <<>>
            /\ bt_status' = bt_status
       ELSE /\ bt_pc' = "returned"
            /\ bt_status' = "Ok"
            /\ UNCHANGED <<bt_child, passes, pass_runs>>
    /\ UNCHANGED <<bt_condition, bt_body, bt_sum>>
    /\ UNCHANGED <<locVars, cmVars, scanVars, auxVars>>

\* one child of the body runs
BtChild ==
    /\ bt_pc = "body"
    /\ LET out == RunChild(bt_body[bt_child], bt_sum)
           next == AfterChild(out.status, bt_child, Len(bt_body))
       IN  /\ bt_sum' = out.sum
           /\ bt_pc' = next.pc
           /\ bt_child' = next.child
           /\ bt_status' = next.status
    /\ pass_runs' = Append(pass_runs, bt_child)
    /\ UNCHANGED <<bt_condition, bt_body, condition_runs, passes>>
    /\ UNCHANGED <<locVars, cmVars, scanVars, auxVars>>

BtInit ==
    /\ bt_pc = "idle"
    /\ bt_condition = 0
    /\ bt_body = <<>>
    /\ bt_child = 0
    /\ bt_sum = 0
    /\ bt_status = "none"
    /\ condition_runs = 0
    /\ passes = 0
    /\ pass_runs = <<>>

BtStep ==
    \/ BtStart
    \/ BtCondition
    \/ BtChild

\* ---- one scan of the prediction step, on a table of its own
\* particles of the scan: the position is the particle's index, the weights
\* are multiples of 1 / ScanGrid that sum to 1
ScanLen == 3
ScanGrid == 4
RECURSIVE GridSum(_, _)
GridSum(w, n) == IF n = 0 THEN 0 ELSE GridSum(w, n - 1) + w[n]
ScanWeightVectors ==
    {w \in [1..ScanLen -> 0..ScanGrid] : GridSum(w, ScanLen) = ScanGrid}
ScanCloud(w) ==
    [i \in 1..ScanLen |-> [position |-> RInt(i), position_weight |-> Rat(w[i], ScanGrid)]]
\* rng.gen_range(0.0..1.0), on a grid twice as fine as the weights'
ScanSamples == {Rat(k, 2 * ScanGrid) : k \in 0..(2 * ScanGrid - 1)}

ScanIdle ==
    /\ scan_cloud = <<>>
    /\ scan_sample = RZero
    /\ scan_pick = -1

ScanDrawn ==
    /\ scan_cloud \in {ScanCloud(w) : w \in ScanWeightVectors}
    /\ scan_sample \in ScanSamples
    /\ scan_pick = -1

\* for (value, weight) in table.iter().copied().rev() { if sample >= weight { .. break } }
ScanTable ==
    /\ scan_pick = -1
    /\ scan_cloud # <<>>
    /\ scan_pick' = ReverseScan(CdfTable(scan_cloud, "position"), scan_sample)
    /\ UNCHANGED <<scan_cloud, scan_sample>>
    /\ UNCHANGED <<locVars, cmVars, btVars, auxVars>>

\* ---- Telemetry::run, the connection loop peer_fut
MaxConnections == 2
MaxTimeouts == 1
MaxControls == 2
\* Steering::default() and ArmParameters::default()
DefaultSteering == [drive |-> 0, steering |-> 0]
DefaultArmParameters == "default"
\* the ControlsPacket values sent by lunabase
ControlsPackets ==
    [drive : {0, 127}, steering : {0, -127}, arm_params : {"default", "lift"}]
\* Steering::from_drive_and_steering(drive / 127, steering / 127), in 127ths
from_drive_and_steering(drive, steering) == [drive |-> drive, steering |-> steering]
ImportantMessages == {"EnableCamera", "DisableCamera"}

\* the steering left as the last command set it
SteeringKept == steering_signal
\* self.steering_signal.set(Steering::default())
SteeringAfterDisconnect == <<DefaultSteering>>

\* connect_to returned Ok: the peer negotiates next
TelConnect ==
    /\ tel_pc = "connecting"
    /\ connections < MaxConnections
    /\ connections' = connections + 1
    /\ tel_pc' = "negotiating"
    /\ UNCHANGED <<steering_signal, arm_signal, enable_camera, timeouts, controls_received>>
    /\ UNCHANGED exceptTel

\* Err(ConnectionError::Timeout) => {}: connect_to is called again
TelConnectTimeout ==
    /\ tel_pc = "connecting"
    /\ timeouts < MaxTimeouts
    /\ timeouts' = timeouts + 1
    /\ UNCHANGED <<tel_pc, steering_signal, arm_signal, enable_camera, connections,
                   controls_received>>
    /\ UNCHANGED exceptTel

\* Err(ConnectionError::ServerDropped) => return Ok(())
TelServerDropped ==
    /\ tel_pc = "connecting"
    /\ tel_pc' = "returned"
    /\ UNCHANGED <<steering_signal, arm_signal, enable_camera, connections, timeouts,
                   controls_received>>
    /\ UNCHANGED exceptTel

\* peer.negotiate returned Ok: the camera is enabled and the four receive
\* loops start
TelNegotiated ==
    /\ tel_pc = "negotiating"
    /\ enable_camera' = TRUE
    /\ tel_pc' = "connected"
    /\ controls_received' = 0
    /\ UNCHANGED <<steering_signal, arm_signal, connections, timeouts>>
    /\ UNCHANGED exceptTel

\* peer.negotiate returned Err: continue
TelNegotiationFailed ==
    /\ tel_pc = "negotiating"
    /\ tel_pc' = "connecting"
    /\ UNCHANGED <<steering_signal, arm_signal, enable_camera, connections, timeouts,
                   controls_received>>
    /\ UNCHANGED exceptTel

\* steering_fut received a packet
TelControls ==
    /\ tel_pc = "connected"
    /\ controls_received < MaxControls
    /\ \E controls \in ControlsPackets :
          /\ steering_signal' =
                <<from_drive_and_steering(controls.drive, controls.steering)>>
          /\ arm_signal' = <<controls.arm_params>>
    /\ controls_received' = controls_received + 1
    /\ UNCHANGED <<tel_pc, enable_camera, connections, timeouts>>
    /\ UNCHANGED exceptTel

\* important_fut received a message
TelImportant ==
    /\ tel_pc = "connected"
    /\ \E msg \in ImportantMessages :
          /\ enable_camera' = (msg = "EnableCamera")
          /\ enable_camera' # enable_camera
    /\ UNCHANGED <<tel_pc, steering_signal, arm_signal, connections, timeouts,
                   controls_received>>
    /\ UNCHANGED exceptTel

\* recv_or_closed returned None in one of the four loops: the select
\* completes, the defaults are set and the outer loop connects again
TelDisconnected ==
    /\ tel_pc = "connected"
    /\ steering_signal' = SteeringAfterDisconnect
    /\ arm_signal' = <<DefaultArmParameters>>
    /\ enable_camera' = FALSE
    /\ tel_pc' = "connecting"
    /\ UNCHANGED <<connections, timeouts, controls_received>>
    /\ UNCHANGED exceptTel

TelInit ==
    /\ tel_pc = "connecting"
    /\ steering_signal = <<>>
    /\ arm_signal = <<>>
    /\ enable_camera = FALSE
    /\ connections = 0
    /\ timeouts = 0
    /\ controls_received = 0

TelStep ==
    \/ TelConnect
    \/ TelConnectTimeout
    \/ TelServerDropped
    \/ TelNegotiated
    \/ TelNegotiationFailed
    \/ TelControls
    \/ TelImportant
    \/ TelDisconnected

\* ---- async_run_all
MaxNodes == 2
Nodes == 1..MaxNodes
NodeOutcomes == {"Ok", "Err", "panicked"}

\* the loop is left on every error
StopsOnAnyError(outcome, is_critical) == outcome = "Err"
\* if let Err(RunError { critical, .. }) = result { if critical { break; } }
StopsRuntime(outcome, is_critical) == outcome = "Err" /\ is_critical

\* init_logger(&run_options)?, the runnables started, tasks.is_empty()
RunAllStart ==
    /\ run_pc = "idle"
    /\ \E rs \in SUBSET Nodes : \E cs \in SUBSET rs : \E log \in {"Ok", "Err"} :
          /\ runnables' = rs
          /\ critical' = cs
          /\ logger' = log
          /\ IF log = "Err"
             THEN /\ run_pc' = "returned"
                  /\ run_result' = "Err"
                  /\ node_state' = node_state
             ELSE IF rs = {}
             THEN /\ run_pc' = "returned"
                  /\ run_result' = "Ok"
                  /\ node_state' = node_state
             ELSE /\ run_pc' = "loop"
                  /\ run_result' = run_result
                  /\ node_state' = [n \in Nodes |-> IF n \in rs THEN "running" ELSE "none"]
    /\ UNCHANGED <<joined, senders_dropped, ctrl_c_failed>>
    /\ UNCHANGED exceptRun

\* node.run() returns or panics
NodeReturns ==
    /\ run_pc \in {"loop", "draining"}
    /\ \E n \in Nodes : \E outcome \in NodeOutcomes :
          /\ node_state[n] = "running"
          /\ node_state' = [node_state EXCEPT ![n] = outcome]
    /\ UNCHANGED <<run_pc, logger, runnables, critical, joined, senders_dropped,
                   ctrl_c_failed, run_result>>
    /\ UNCHANGED exceptRun

\* let _ = recv.await; abort.abort(): the node's task is cancelled
NodeAborted ==
    /\ senders_dropped
    /\ \E n \in Nodes :
          /\ node_state[n] = "running"
          /\ node_state' = [node_state EXCEPT ![n] = "aborted"]
    /\ UNCHANGED <<run_pc, logger, runnables, critical, joined, senders_dropped,
                   ctrl_c_failed, run_result>>
    /\ UNCHANGED exceptRun

\* the arm tasks.join_next() of the first loop; a break is followed by
\* drop(senders)
JoinNext ==
    /\ run_pc = "loop"
    /\ IF joined = runnables
       THEN /\ run_pc' = "draining"
            /\ senders_dropped' = TRUE
            /\ joined' = joined
       ELSE \E n \in runnables \ joined :
              /\ node_state[n] # "running"
              /\ joined' = joined \cup {n}
              /\ IF StopsRuntime(node_state[n], n \in critical)
                 THEN /\ run_pc' = "draining"
                      /\ senders_dropped' = TRUE
                 ELSE /\ run_pc' = "loop"
                      /\ senders_dropped' = senders_dropped
    /\ UNCHANGED <<logger, runnables, critical, node_state, ctrl_c_failed, run_result>>
    /\ UNCHANGED exceptRun

\* the arm ctrl_c_fut with Ok: break, then drop(senders)
CtrlC ==
    /\ run_pc = "loop"
    /\ ~ctrl_c_failed
    /\ run_pc' = "draining"
    /\ senders_dropped' = TRUE
    /\ UNCHANGED <<logger, runnables, critical, node_state, joined, ctrl_c_failed,
                   run_result>>
    /\ UNCHANGED exceptRun

\* the arm ctrl_c_fut with Err
CtrlCFailed ==
    /\ run_pc = "loop"
    /\ ~ctrl_c_failed
    /\ ctrl_c_failed' = TRUE
    /\ UNCHANGED <<run_pc, logger, runnables, critical, node_state, joined,
                   senders_dropped, run_result>>
    /\ UNCHANGED exceptRun

\* while let Some(result) = tasks.join_next().await { .. } Ok(())
DrainJoin ==
    /\ run_pc = "draining"
    /\ IF joined = runnables
       THEN /\ run_pc' = "returned"
            /\ run_result' = "Ok"
            /\ joined' = joined
       ELSE \E n \in runnables \ joined :
              /\ node_state[n] # "running"
              /\ joined' = joined \cup {n}
              /\ IF StopsRuntime(node_state[n], n \in critical)
                 THEN /\ run_pc' = "returned"
                      /\ run_result' = "Ok"
                 ELSE /\ run_pc' = "draining"
                      /\ run_result' = run_result
    /\ UNCHANGED <<logger, runnables, critical, node_state, senders_dropped,
                   ctrl_c_failed>>
    /\ UNCHANGED exceptRun

RunAllInit ==
    /\ run_pc = "idle"
    /\ logger = "none"
    /\ runnables = {}
    /\ critical = {}
    /\ node_state = [n \in Nodes |-> "none"]
    /\ joined = {}
    /\ senders_dropped = FALSE
    /\ ctrl_c_failed = FALSE
    /\ run_result = "none"

RunAllStep ==
    \/ RunAllStart
    \/ NodeReturns
    \/ NodeAborted
    \/ JoinNext
    \/ CtrlC
    \/ CtrlCFailed
    \/ DrainJoin

\* ---- WatchedSubscription
MaxPublished == 3
MaxWatchCalls == 3

\* WatchTrait::get of the receiver returns at once: borrow_and_update holds
\* Some value
ReceiverGetReady == watch_version > 0

\* WatchedSubscription::none() or a subscription of the channel
WatchCreate ==
    /\ watch_kind = "unset"
    /\ watch_kind' \in {"none", "some"}
    /\ UNCHANGED <<watch_version, watch_closed, seen_version, watch_call,
                   watch_pending, watch_returned, watch_calls, watch_completed>>
    /\ UNCHANGED exceptWatch

\* the publisher sends Some(value)
WatchPublish ==
    /\ ~watch_closed
    /\ watch_version < MaxPublished
    /\ watch_version' = watch_version + 1
    /\ UNCHANGED <<watch_kind, watch_closed, seen_version, watch_call,
                   watch_pending, watch_returned, watch_calls, watch_completed>>
    /\ UNCHANGED exceptWatch

\* the publisher is dropped
WatchSenderDropped ==
    /\ ~watch_closed
    /\ watch_closed' = TRUE
    /\ UNCHANGED <<watch_kind, watch_version, seen_version, watch_call,
                   watch_pending, watch_returned, watch_calls, watch_completed>>
    /\ UNCHANGED exceptWatch

\* WatchedSubscription::get: recv.get().await
WatchGet ==
    /\ watch_kind \in {"none", "some"}
    /\ ~watch_pending
    /\ watch_calls < MaxWatchCalls
    /\ watch_calls' = watch_calls + 1
    /\ watch_call' = "get"
    /\ IF watch_kind = "some" /\ ReceiverGetReady
       THEN \* borrow_and_update
            /\ seen_version' = watch_version
            /\ watch_returned' = <<watch_version>>
            /\ watch_completed' = watch_completed + 1
            /\ watch_pending' = FALSE
       ELSE \* self.changed().await, or pending() without a receiver
            /\ watch_pending' = TRUE
            /\ UNCHANGED <<seen_version, watch_returned, watch_completed>>
    /\ UNCHANGED <<watch_kind, watch_version, watch_closed>>
    /\ UNCHANGED exceptWatch

\* WatchedSubscription::wait_for_change: recv.get().await as well
WatchWaitForChange ==
    /\ watch_kind \in {"none", "some"}
    /\ ~watch_pending
    /\ watch_calls < MaxWatchCalls
    /\ watch_calls' = watch_calls + 1
    /\ watch_call' = "wait_for_change"
    /\ IF watch_kind = "some" /\ ReceiverGetReady
       THEN \* borrow_and_update
            /\ seen_version' = watch_version
            /\ watch_returned' = <<watch_version>>
            /\ watch_completed' = watch_completed + 1
            /\ watch_pending' = FALSE
       ELSE \* self.changed().await, or pending() without a receiver
            /\ watch_pending' = TRUE
            /\ UNCHANGED <<seen_version, watch_returned, watch_completed>>
    /\ UNCHANGED <<watch_kind, watch_version, watch_closed>>
    /\ UNCHANGED exceptWatch

\* self.changed() completes with Ok in a suspended call
WatchChanged ==
    /\ watch_kind = "some"
    /\ watch_pending
    /\ watch_version > seen_version
    /\ seen_version' = watch_version
    /\ watch_returned' = <<watch_version>>
    /\ watch_completed' = watch_completed + 1
    /\ watch_pending' = FALSE
    /\ UNCHANGED <<watch_kind, watch_version, watch_closed, watch_call, watch_calls>>
    /\ UNCHANGED exceptWatch

\* WatchedSubscription::try_get
WatchTryGet ==
    /\ watch_kind \in {"none", "some"}
    /\ ~watch_pending
    /\ watch_calls < MaxWatchCalls
    /\ watch_calls' = watch_calls + 1
    /\ watch_call' = "try_get"
    /\ IF watch_kind = "some"
       THEN /\ seen_version' = watch_version
            /\ watch_returned' = IF watch_version > 0 THEN <<watch_version>> ELSE <<>>
       ELSE /\ seen_version' = seen_version
            /\ watch_returned' = <<>>
    /\ UNCHANGED <<watch_kind, watch_version, watch_closed, watch_pending,
                   watch_completed>>
    /\ UNCHANGED exceptWatch

WatchInit ==
    /\ watch_kind = "unset"
    /\ watch_version = 0
    /\ watch_closed = FALSE
    /\ seen_version = 0
    /\ watch_call = "none"
    /\ watch_pending = FALSE
    /\ watch_returned = <<>>
    /\ watch_calls = 0
    /\ watch_completed = 0

WatchStep ==
    \/ WatchCreate
    \/ WatchPublish
    \/ WatchSenderDropped
    \/ WatchGet
    \/ WatchWaitForChange
    \/ WatchChanged
    \/ WatchTryGet

\* ---- enumerate_depth_cameras
MaxRestarts == 2
MaxHubFailures == 1
\* the serials of serial_to_chain; both cameras are connected
Serials == {"serial_a", "serial_b"}
NoSerial == "none"

\* let _ = self.init_tx.send(self.serial); then self.pipeline.recv()
CameraRequests ==
    /\ \E serial \in Serials :
          /\ camera_task[serial] = "start"
          /\ init_queue' = Append(init_queue, serial)
          /\ camera_task' = [camera_task EXCEPT ![serial] = "waiting"]
    /\ UNCHANGED <<hub_pc, target_serial, pipelines, restarts, hub_failures>>
    /\ UNCHANGED exceptDepth

\* self.pipeline.recv() returns the started pipeline
CameraStarts ==
    /\ \E serial \in Serials :
          /\ camera_task[serial] = "waiting"
          /\ pipelines[serial] > 0
          /\ pipelines' = [pipelines EXCEPT ![serial] = @ - 1]
          /\ camera_task' = [camera_task EXCEPT ![serial] = "streaming"]
    /\ UNCHANGED <<init_queue, hub_pc, target_serial, restarts, hub_failures>>
    /\ UNCHANGED exceptDepth

\* depth_camera_task returns (a format is missing, the pipeline fails) and
\* the thread's loop calls it again
CameraReturns ==
    /\ restarts < MaxRestarts
    /\ \E serial \in Serials :
          /\ camera_task[serial] = "streaming"
          /\ camera_task' = [camera_task EXCEPT ![serial] = "start"]
    /\ restarts' = restarts + 1
    /\ UNCHANGED <<init_queue, hub_pc, target_serial, pipelines, hub_failures>>
    /\ UNCHANGED exceptDepth

\* let Ok(target_serial) = init_rx.recv()
HubRecv ==
    /\ hub_pc = "recv"
    /\ init_queue # <<>>
    /\ target_serial' = Head(init_queue)
    /\ init_queue' = Tail(init_queue)
    /\ hub_pc' = "device"
    /\ UNCHANGED <<camera_task, pipelines, restarts, hub_failures>>
    /\ UNCHANGED exceptDepth

\* device_hub.wait_for_device() returns one of the connected devices and
\* the rest of the iteration runs: a device of another serial continues the
\* loop, the device of the target serial is started and its pipeline sent
HubDevice ==
    /\ hub_pc = "device"
    /\ \E current_serial \in Serials :
          IF target_serial # current_serial
          THEN pipelines' = pipelines
          ELSE pipelines' = [pipelines EXCEPT ![current_serial] = @ + 1]
    /\ target_serial' = NoSerial
    /\ hub_pc' = "recv"
    /\ UNCHANGED <<camera_task, init_queue, restarts, hub_failures>>
    /\ UNCHANGED exceptDepth

\* the device's information cannot be read, or it cannot be configured or
\* started: continue
HubDeviceUnusable ==
    /\ hub_pc = "device"
    /\ hub_failures < MaxHubFailures
    /\ hub_failures' = hub_failures + 1
    /\ target_serial' = NoSerial
    /\ hub_pc' = "recv"
    /\ UNCHANGED <<camera_task, init_queue, pipelines, restarts>>
    /\ UNCHANGED exceptDepth

\* wait_for_device returned Err: break
HubStops ==
    /\ hub_pc = "device"
    /\ hub_failures < MaxHubFailures
    /\ hub_failures' = hub_failures + 1
    /\ target_serial' = NoSerial
    /\ hub_pc' = "stopped"
    /\ UNCHANGED <<camera_task, init_queue, pipelines, restarts>>
    /\ UNCHANGED exceptDepth

DepthInit ==
    /\ camera_task = [serial \in Serials |-> "start"]
    /\ init_queue = <<>>
    /\ hub_pc = "recv"
    /\ target_serial = NoSerial
    /\ pipelines = [serial \in Serials |-> 0]
    /\ restarts = 0
    /\ hub_failures = 0

DepthStep ==
    \/ CameraRequests
    \/ CameraStarts
    \/ CameraReturns
    \/ HubRecv
    \/ HubDevice
    \/ HubDeviceUnusable
    \/ HubStops

\* ---- Autonomy::advance
MaxAdvances == 16
AutonomyStage == {"TraverseObstacles", "Dig", "Dump"}
FullAutonomy(autonomy_stage) == <<"FullAutonomy", autonomy_stage>>
PartialAutonomy(autonomy_stage) == <<"PartialAutonomy", autonomy_stage>>
NoAutonomy == <<"None">>
Autonomy ==
    {FullAutonomy(st) : st \in AutonomyStage}
        \cup {PartialAutonomy(st) : st \in AutonomyStage} \cup {NoAutonomy}

\* advance with Dump followed by TraverseObstacles
advance_restarting(a) ==
    IF a[1] = "FullAutonomy"
    THEN CASE a[2] = "TraverseObstacles" -> FullAutonomy("Dig")
           [] a[2] = "Dig" -> FullAutonomy("Dump")
           [] a[2] = "Dump" -> FullAutonomy("TraverseObstacles")
    ELSE NoAutonomy

\* Autonomy::advance: the value of *self after the call
advance(a) ==
    IF a[1] = "FullAutonomy"
    THEN CASE a[2] = "TraverseObstacles" -> FullAutonomy("Dig")
           [] a[2] = "Dig" -> FullAutonomy("Dump")
           [] a[2] = "Dump" -> FullAutonomy("Dig")
    ELSE IF a[1] = "PartialAutonomy" THEN NoAutonomy
    ELSE a

\* blackboard.autonomy.advance()
Advance ==
    /\ autonomy_start \in Autonomy
    /\ advances < MaxAdvances
    /\ autonomy' = advance(autonomy)
    /\ advances' = advances + 1
    /\ UNCHANGED autonomy_start
    /\ UNCHANGED exceptAutonomy

\* no AutonomyBlackboard yet
AutonomyIdle ==
    /\ autonomy = NoAutonomy
    /\ autonomy_start = <<>>
    /\ advances = 0

\* every value of the enum
AutonomyDrawn ==
    /\ autonomy \in Autonomy
    /\ autonomy_start = autonomy
    /\ advances = 0

\* ---- ares-bt: Sequence and Select
MaxStartSum == 2

\* a Select that returns the Status of its last child only
SelectAfterRunningAll(st, k, len) ==
    IF k < len THEN [child |-> k + 1, status |-> "none"]
    ELSE [child |-> k, status |-> st]

\* self.body.$num.run(blackboard)?; ... Ok(()): an Err returns at once, the
\* Ok of the last child returns Ok
SequenceAfter(st, k, len) ==
    IF st = "Err" THEN [child |-> k, status |-> "Err"]
    ELSE IF k < len THEN [child |-> k + 1, status |-> "none"]
    ELSE [child |-> k, status |-> "Ok"]

\* if self.body.$num.run(blackboard).is_ok() { return Ok(()) } ... Err(()):
\* an Ok returns at once, the Err of the last child returns Err
SelectAfter(st, k, len) ==
    IF st = "Ok" THEN [child |-> k, status |-> "Ok"]
    ELSE IF k < len THEN [child |-> k + 1, status |-> "none"]
    ELSE [child |-> k, status |-> "Err"]

\* Sequence { body }.run(&mut sum) or Select { body }.run(&mut sum) is called
SeqStart ==
    /\ seq_kind = "none"
    /\ seq_kind' \in {"Sequence", "Select"}
    /\ seq_body' \in Bodies
    /\ seq_sum' \in 0..MaxStartSum
    /\ seq_child' = 1
    /\ UNCHANGED <<seq_status, seq_runs>>
    /\ UNCHANGED exceptSeq

\* one child of a Sequence runs
SequenceChild ==
    /\ seq_kind = "Sequence"
    /\ seq_status = "none"
    /\ LET out == RunChild(seq_body[seq_child], seq_sum)
           next == SequenceAfter(out.status, seq_child, Len(seq_body))
       IN  /\ seq_sum' = out.sum
           /\ seq_child' = next.child
           /\ seq_status' = next.status
           /\ seq_runs' = Append(seq_runs, [child |-> seq_child, status |-> out.status])
    /\ UNCHANGED <<seq_kind, seq_body>>
    /\ UNCHANGED exceptSeq

\* one child of a Select runs
SelectChild ==
    /\ seq_kind = "Select"
    /\ seq_status = "none"
    /\ LET out == RunChild(seq_body[seq_child], seq_sum)
           next == SelectAfter(out.status, seq_child, Len(seq_body))
       IN  /\ seq_sum' = out.sum
           /\ seq_child' = next.child
           /\ seq_status' = next.status
           /\ seq_runs' = Append(seq_runs, [child |-> seq_child, status |-> out.status])
    /\ UNCHANGED <<seq_kind, seq_body>>
    /\ UNCHANGED exceptSeq

SeqInit ==
    /\ seq_kind = "none"
    /\ seq_body = <<>>
    /\ seq_child = 0
    /\ seq_sum = 0
    /\ seq_status = "none"
    /\ seq_runs = <<>>

SeqStep ==
    \/ SeqStart
    \/ SequenceChild
    \/ SelectChild

\* ---- soft_stop
MaxMessages == 4
FromLunabase == {"Ping", "ContinueMission", "TriggerSetup"}
\* the messages that arrive before the deadline of one call
MessageQueues == UNION {[1..n -> FromLunabase] : n \in 0..MaxMessages}

\* the closure with TriggerSetup treated as Ping
closure_ignoring_setup(msg) ==
    IF msg = "ContinueMission" THEN <<"Success">> ELSE <<>>

\* the closure given to on_get_msg_from_lunabase: <<>> for
\* ControlFlow::Continue, <<status>> for ControlFlow::Break
closure(msg) ==
    CASE msg = "Ping" -> <<>>
      [] msg = "ContinueMission" -> <<"Success">>
      [] msg = "TriggerSetup" -> <<"Failure">>

\* Blackboard::on_get_msg_from_lunabase: the messages are received until
\* the closure breaks or the deadline passes; val is <<>> for None
RECURSIVE on_get_msg_from_lunabase(_)
on_get_msg_from_lunabase(from_lunabase) ==
    IF from_lunabase = <<>>
    THEN [val |-> <<>>, from_lunabase |-> <<>>]
    ELSE IF closure(Head(from_lunabase)) = <<>>
    THEN on_get_msg_from_lunabase(Tail(from_lunabase))
    ELSE [val |-> closure(Head(from_lunabase)), from_lunabase |-> Tail(from_lunabase)]

\* soft_stop(bb, dt, first_time, lunabot_app)
SoftStop ==
    /\ stop_status = "none"
    /\ bb_given = "none"
    /\ bb_given' = bb
    /\ IF bb # <<>>
       THEN LET got == on_get_msg_from_lunabase(bb[1])
            IN  /\ stop_status' = IF got.val = <<>> THEN "Running" ELSE got.val[1]
                /\ bb' = <<got.from_lunabase>>
       ELSE /\ stop_status' = "Failure"
            /\ bb' = bb
    /\ UNCHANGED exceptStop

\* no call of soft_stop
StopIdle ==
    /\ bb = <<>>
    /\ stop_status = "done"
    /\ bb_given = "none"

\* no blackboard, or one with every sequence of messages
StopDrawn ==
    /\ bb \in {<<>>} \cup {<<q>> : q \in MessageQueues}
    /\ stop_status = "none"
    /\ bb_given = "none"

AuxInit ==
    /\ TelInit /\ RunAllInit /\ WatchInit /\ DepthInit
    /\ AutonomyIdle /\ StopIdle /\ SeqInit

\* --------------------------------------------------------- specifications
vars == <<locVars, cmVars, btVars, scanVars, auxVars>>

Init == LocInit /\ CostmapInit /\ BtInit /\ ScanIdle /\ AuxInit

\* One calibration followed by the steady state, nobody asks to recalibrate.
Next ==
    \/ LocStep
    \/ SendImu(MaxFrames)
    \/ SendPosition(MaxFrames)
    \/ SendVelocity(MaxFrames)
    \/ SendOrientation(MaxFrames)


Spec == Init /\ [][Next]_vars

\* The whole cycle of the two stages, with recalibration requests and fewer
\* sensor frames.
CycleNext ==
    \/ LocStep
    \/ RecalibrateArm
    \/ SendRecalibrate
    \/ SendImu(MaxCycleFrames)
    \/ SendPosition(MaxCycleFrames)
    \/ SendVelocity(MaxCycleFrames)
    \/ SendOrientation(MaxCycleFrames)

SpecCycle == Init /\ [][CycleNext]_vars

\* The steady state while the sensors go away one after the other.
CloseNext ==
    \/ LocStep
    \/ CloseChannel
    \/ SendImu(MaxCycleFrames)
    \/ SendPosition(MaxCycleFrames)
    \/ SendVelocity(MaxCycleFrames)
    \/ SendOrientation(MaxCycleFrames)

SpecClose == Init /\ [][CloseNext]_vars

\* The steady state with an orientation source that can report NaN.
DegenerateNext ==
    \/ LocStep
    \/ SendImu(MaxFrames)
    \/ SendPosition(MaxFrames)
    \/ SendVelocity(MaxFrames)
    \/ SendOrientation(MaxFrames)
    \/ SendDegenerateOrientation(MaxFrames)

SpecDegenerate == Init /\ [][DegenerateNext]_vars

\* The costmap generator and the depth sources that feed it.
CostmapNext == CostmapStep

SpecCostmap == Init /\ [][CostmapNext]_vars

\* A WhileLoop of ares-bt run once.
BtNext == BtStep

SpecBt == Init /\ [][BtNext]_vars

\* One reverse scan of a table, for every cloud and draw of the grid.
ScanInit == LocInit /\ CostmapInit /\ BtInit /\ ScanDrawn /\ AuxInit

ScanNext == ScanTable

SpecScan == ScanInit /\ [][ScanNext]_vars

\* Telemetry's connection loop over a few connections.
TelNext == TelStep

SpecTel == Init /\ [][TelNext]_vars

\* async_run_all over every choice of runnables.
RunAllNext == RunAllStep

SpecRunAll == Init /\ [][RunAllNext]_vars

\* One WatchedSubscription, its publisher and a few calls.
WatchNext == WatchStep

SpecWatch == Init /\ [][WatchNext]_vars

\* Two depth cameras and the device hub thread.
DepthNext == DepthStep

SpecDepth == Init /\ [][DepthNext]_vars

\* Autonomy::advance called repeatedly from every value of the enum.
AutonomyInit ==
    /\ LocInit /\ CostmapInit /\ BtInit /\ ScanIdle
    /\ TelInit /\ RunAllInit /\ WatchInit /\ DepthInit /\ StopIdle /\ SeqInit
    /\ AutonomyDrawn

AutonomyNext == Advance

SpecAutonomy == AutonomyInit /\ [][AutonomyNext]_vars

\* One call of soft_stop for every blackboard and message sequence.
StopInit ==
    /\ LocInit /\ CostmapInit /\ BtInit /\ ScanIdle
    /\ TelInit /\ RunAllInit /\ WatchInit /\ DepthInit /\ AutonomyIdle /\ SeqInit
    /\ StopDrawn

StopNext == SoftStop

SpecStop == StopInit /\ [][StopNext]_vars

\* Runs of a Sequence and of a Select alone.
SeqNext == SeqStep

SpecSeq == Init /\ [][SeqNext]_vars

\* ------------------------------------------------------------------ claims
AllowedStageChange ==
    \/ stage' = stage
    \/ /\ stage = "Calibrating"
       /\ stage' = "Running"
       /\ calib_elapsed = calibration_duration
    \/ /\ stage = "Running"
       /\ stage' = "Calibrating"
       /\ recalibrate_sub # SubEmpty

\* C1: the localizer starts in Calibrating, changes stage only from
\* Calibrating to Running once calibration_duration has elapsed and from
\* Running to Calibrating on a recalibration signal, and never leaves the
\* two stages.
C1_StageCycle ==
    /\ stage = "Calibrating"
    /\ [][AllowedStageChange /\ stage' \in {"Calibrating", "Running"}]_vars

\* C2: whenever the prediction step builds the five tables, each of the five
\* weight channels sums to 1 within 1e-5, so no assertion fires.
C2_WeightsSumToOne ==
    (stage = "Running" /\ pc = "predict") =>
        \A c \in Channels : CdfAssertion(particles, c)

\* ---- the costmap's window
\* the latest Costmap set on the publisher
LastCostmap == costmap_pub[Len(costmap_pub)]

\* the slot of the ring the n-th received frame is written to
SlotOf(n) == ((n - 1) % window_length) + 1

NonDefaultSlots(frames) == {i \in 1..Len(frames) : frames[i] # DefaultFrame}

\* C3: after k frames have been received, the published costmap holds
\* exactly k frames other than the default one while k < window_length, and
\* the window_length most recently received frames, each in its slot of the
\* ring, from then on.
C3_SlidingWindow ==
    costmap_pub # <<>> =>
        LET k == Len(received)
            frames == LastCostmap.frames
        IN  /\ Len(frames) = window_length
            /\ k < window_length => Cardinality(NonDefaultSlots(frames)) = k
            /\ \A n \in 1..k :
                  n > k - window_length => frames[SlotOf(n)] = received[n]

\* more frames than the window holds have been received and published
C3_Witness ==
    /\ Len(received) > window_length
    /\ Len(costmap_pub) > Len(received)
    /\ Cardinality(NonDefaultSlots(LastCostmap.frames)) = window_length

\* ---- rasterization
RECURSIVE CountSumOver(_, _)
CountSumOver(q, anchors) ==
    IF anchors = {} THEN 0
    ELSE LET a == CHOOSE x \in anchors : TRUE
         IN  q[a].count + CountSumOver(q, anchors \ {a})

\* the sum of count over the cells of a quadtree
CountSum(q) == CountSumOver(q, DOMAIN q)

\* C4: in every frame rasterized from a non-empty batch, the counts of the
\* cells sum to the number of points of the batch.
C4_CountSumIsPointCount ==
    /\ \A i \in 1..Len(octree_sub) :
          CountSum(octree_sub[i].quadtree) = octree_sub[i].points
    /\ \A i \in 1..Len(received) :
          CountSum(received[i].quadtree) = received[i].points

\* ---- recalibration
\* C5: from the step that consumes a recalibration signal on, the stage is
\* Calibrating with a sleep that starts at zero; while it lasts no pose is
\* published, and Running is entered again only when the sleep has lasted
\* calibration_duration.
C5_NoPublicationWhileRecalibrating ==
    [][/\ (stage = "Running" /\ stage' = "Calibrating") =>
              (arm' = "recalibrate" /\ calib_elapsed' = 0 /\ pub_count' = pub_count)
       /\ (stage = "Calibrating" /\ arm = "recalibrate") =>
              /\ pub_count' = pub_count
              /\ robot_base' = robot_base
              /\ stage' = "Running" => calib_elapsed = calibration_duration
              /\ stage' # "Running" => arm' = "recalibrate"]_vars

\* a pose was published, a recalibration signal was consumed, and Running
\* has been entered again
C5_Witness ==
    /\ stage = "Running"
    /\ pc = "select"
    /\ arm = "recalibrate"
    /\ pub_count >= 1
    /\ calib_elapsed = calibration_duration

\* ---- position snap
\* the iteration took the position arm and its frame had variance 0
PositionSnapped == arm = "position" /\ obs # <<>> /\ obs[1].snap

\* C6 as claimed: after an iteration that processed a position frame of
\* variance 0 and value p, prediction included, every particle's position
\* is p.
C6_SnapHoldsAtIterationEnd ==
    (stage = "Running" /\ pc \in {"aggregate", "publish"} /\ PositionSnapped) =>
        \A i \in Indices : particles[i].position = obs[1].value

\* C6 amended: after the snap and before the prediction every particle's
\* position is p; the prediction then moves every particle to p + v * delta
\* for the linear velocity v of one of the particles.
C6_SnapThenPrediction ==
    /\ [][(stage = "Running" /\ pc = "predict" /\ PositionSnapped /\ pc' = "aggregate") =>
             \A i \in Indices : \E j \in Indices :
                particles'[i].position =
                    RAdd(obs[1].value, RMul(particles[j].linear_velocity, delta))]_vars
    /\ []((stage = "Running" /\ pc = "predict" /\ PositionSnapped) =>
             \A i \in Indices :
                /\ particles[i].position = obs[1].value
                /\ particles[i].position_weight = default_weight)

\* the prediction has moved a snapped cloud away from p
C6_Witness ==
    /\ stage = "Running"
    /\ pc = "aggregate"
    /\ PositionSnapped
    /\ delta # RZero
    /\ \A i \in Indices : particles[i].position # obs[1].value

\* ---- deprivation recovery
\* C7: in an update that is no snap, the recovery runs exactly when the sum
\* of the multiplied weights is at most minimum_unnormalized_weight, and it
\* rewrites ceil(N * undeprivation_factor) particles.
C7_DeprivationRecovery ==
    \A n \in 1..Len(obs) :
        LET r == obs[n]
        IN  ~r.snap =>
              /\ r.recovered <=> RLeq(r.sum, minimum_unnormalized_weight)
              /\ r.recovered =>
                    Cardinality(r.rewritten) =
                        RCeil(RMul(RInt(point_count), undeprivation_factor))
              /\ ~r.recovered => r.rewritten = {}

\* the recovery ran with the sum exactly at the threshold
C7_Witness ==
    \E n \in 1..Len(obs) :
        /\ ~obs[n].snap
        /\ obs[n].recovered
        /\ obs[n].sum = minimum_unnormalized_weight
        /\ obs[n].rewritten # {}

\* ---- the timeout
\* C8: the select never waits longer than max_delta; when max_delta has
\* passed the timeout arm can be taken whatever the sensors did, and the
\* iteration it starts passes the assertions of the prediction step and
\* goes on to publish.
C8_TimeoutBoundsWaiting ==
    /\ (stage = "Running" /\ pc = "select") => waited <= max_delta
    /\ (Selecting /\ waited = max_delta) => ENABLED TimeoutArm
    /\ (stage = "Running" /\ arm = "timeout" /\ pc = "predict") =>
          /\ delta = RInt(max_delta)
          /\ \A c \in Channels : CdfAssertion(particles, c)

\* an iteration started by the timeout is about to publish, after another
\* iteration
C8_Witness ==
    /\ stage = "Running"
    /\ arm = "timeout"
    /\ pc = "publish"
    /\ pub_count >= 1
    /\ imu_sub = SubEmpty
    /\ position_sub = SubEmpty

\* ---- the order of an iteration
\* C9: an iteration leaves the select by one arm; every arm but the
\* recalibration arm is followed by prediction, aggregation and one
\* publication, in this order; the recalibration arm leaves the stage
\* without prediction and publication.
C9_IterationOrder ==
    [][/\ (pc = "select" /\ pc' # "select") =>
              \/ /\ pc' = "predict"
                 /\ arm' \in {"timeout", "imu", "position", "velocity", "orientation"}
                 /\ pub_count' = pub_count
              \/ /\ pc' = "calibrate"
                 /\ arm' = "recalibrate"
                 /\ pub_count' = pub_count
                 /\ robot_base' = robot_base
       /\ (pc = "predict" /\ pc' # "predict") => pc' = "aggregate"
       /\ (pc = "aggregate" /\ pc' # "aggregate") => pc' = "publish"
       /\ (pc = "publish" /\ pc' # "publish") =>
              (pc' = "select" /\ pub_count' = pub_count + 1)
       /\ pub_count' # pub_count => (pc = "publish" /\ pub_count' = pub_count + 1)
       /\ robot_base' # robot_base => pc = "publish"]_vars

\* ---- publication of the costmap
\* C10 as claimed: as many snapshots are published as frames are written,
\* the n-th snapshot with the n-th frame.
C10_SnapshotPerWrite ==
    /\ Len(costmap_pub) = Len(received)
    /\ \A n \in 1..Len(received) : costmap_pub[n].frames[SlotOf(n)] = received[n]

\* C10 amended: run publishes a first snapshot of default frames before it
\* receives anything; from then on there is one snapshot more than frames
\* written, and the snapshot published on the n-th write, the (n+1)-th,
\* holds the n-th received frame and none received later.
C10_SnapshotPerWriteAfterFirst ==
    /\ gen_pc = "start" => (costmap_pub = <<>> /\ received = <<>>)
    /\ gen_pc # "start" =>
          /\ Len(costmap_pub) = Len(received) + 1
          /\ NonDefaultSlots(costmap_pub[1].frames) = {}
          /\ \A n \in 1..Len(received) :
                /\ costmap_pub[n + 1].frames[SlotOf(n)] = received[n]
                /\ Cardinality(NonDefaultSlots(costmap_pub[n + 1].frames)) =
                      IF n < window_length THEN n ELSE window_length

\* every frame of the bound has been received and published
C10_Witness ==
    /\ Len(received) = MaxBatches
    /\ Len(costmap_pub) = MaxBatches + 1


\* C11: an empty input batch produces no CostmapFrame: the step that sends it
\* queues no frame, writes nothing into the sliding window, leaves the write
\* index where it is and publishes no Costmap; and no frame that run is
\* given or has been given comes from a batch without points
EmptyBatchSent ==
    /\ batches_sent' = batches_sent + 1
    /\ last_batch_len' = 0
C11_EmptyBatchStep ==
    EmptyBatchSent =>
        UNCHANGED <<octree_sub, costmap_frames, frame_index, costmap_pub, received>>
NoFrameWithoutPoints ==
    /\ \A n \in 1..Len(octree_sub) : octree_sub[n].points > 0
    /\ \A n \in 1..Len(received) : received[n].points > 0
C11_EmptyBatchNoFrame ==
    [][C11_EmptyBatchStep /\ NoFrameWithoutPoints']_vars
C11_Witness ==
    /\ batches_sent >= 2
    /\ last_batch_len = 0
    /\ gen_pc = "recv"
    /\ Len(received) = 1
    /\ octree_sub = <<>>
    /\ Len(costmap_pub) = 2

\* C12: in every CostmapFrame, every cell's mean height total_height / count
\* lies between the frame's min_height and max_height
FramesEmitted ==
    {octree_sub[n] : n \in 1..Len(octree_sub)} \cup {received[n] : n \in 1..Len(received)}
MeanHeight(cell) == RDiv(cell.total_height, RInt(cell.count))
C12_MeanHeightWithinRange ==
    \A frame \in FramesEmitted :
        \A anchor \in DOMAIN frame.quadtree :
            /\ RLeq(frame.min_height, MeanHeight(frame.quadtree[anchor]))
            /\ RLeq(MeanHeight(frame.quadtree[anchor]), frame.max_height)
C12_Witness ==
    \E frame \in FramesEmitted :
        /\ RLt(frame.min_height, frame.max_height)
        /\ \E anchor \in DOMAIN frame.quadtree :
              /\ frame.quadtree[anchor].count = 2
              /\ RLt(frame.min_height, MeanHeight(frame.quadtree[anchor]))
              /\ RLt(MeanHeight(frame.quadtree[anchor]), frame.max_height)

\* C13: for every emitted CostmapFrame, max_density equals the maximum count
\* over the cells stored in the frame's quadtree (0 when no cell is stored)
MaxCount(q) == Max({0} \cup {q[anchor].count : anchor \in DOMAIN q})
C13_MaxDensityIsMaxCount ==
    \A frame \in FramesEmitted : frame.max_density = MaxCount(frame.quadtree)

\* C14: is_global_point_safe(point, radius) returns true if and only if no
\* cell of the Costmap's frames within radius of point has a mean height at
\* or above the threshold; asked of every published Costmap
SafetyThreshold == ROne
QueryPoints == {[x |-> RZero, y |-> RZero, z |-> RZero]}
QueryRadii == {ROne}
Square(a) == RMul(a, a)
WithinRadius(frame, anchor, point, radius) ==
    RLeq(RAdd(Square(RSub(RMul(RInt(anchor[1]), frame.resolution), point.x)),
              Square(RSub(RMul(RInt(anchor[2]), frame.resolution), point.z))),
         Square(radius))
NoCellAtOrAboveThreshold(costmap, point, radius) ==
    \A n \in 1..Len(costmap.frames) :
        \A anchor \in DOMAIN costmap.frames[n].quadtree :
            WithinRadius(costmap.frames[n], anchor, point, radius)
                => RLt(MeanHeight(costmap.frames[n].quadtree[anchor]), SafetyThreshold)
C14_SafeIffNoHighCell ==
    \A n \in 1..Len(costmap_pub) :
        \A point \in QueryPoints :
            \A radius \in QueryRadii :
                is_global_point_safe(costmap_pub[n], point, radius)
                    <=> NoCellAtOrAboveThreshold(costmap_pub[n], point, radius)

\* C19: creating a points subscription with resolution 0 is rejected at
\* creation: no subscription is returned, so no batch is ever rasterized by
\* it, and no emitted frame has resolution 0
C19_ZeroResolutionRejected ==
    /\ (points_sub # "none" /\ requested_resolution = RZero)
           => /\ points_sub = "rejected"
              /\ batches_sent = 0
              /\ FramesEmitted = {}
    /\ points_sub = "created" => requested_resolution # RZero
    /\ \A frame \in FramesEmitted : frame.resolution # RZero
C19_Witness ==
    /\ points_sub = "rejected"
    /\ requested_resolution = RZero
    /\ gen_pc = "done"

\* C20: a published Costmap is an immutable snapshot: whatever run writes
\* into the window afterwards, every Costmap published earlier keeps the
\* frames and the point_count it had when it was published
C20_PublishedCostmapImmutable ==
    [][/\ Len(costmap_pub') >= Len(costmap_pub)
       /\ \A n \in 1..Len(costmap_pub) : costmap_pub'[n] = costmap_pub[n]]_vars
C20_Witness ==
    /\ Len(costmap_pub) = 4
    /\ costmap_pub[2].frames # costmap_pub[4].frames
    /\ costmap_pub[2].frames[1] # costmap_frames[1]
    /\ costmap_pub[2].point_count # costmap_pub[4].point_count

\* C17: when a recalibration signal is pending at a select of the Running
\* loop, the arm that select takes is the recalibration arm: the stage goes
\* to Calibrating and no sensor frame is processed, even if frames are pending
SelectTakesAnArm == stage = "Running" /\ pc = "select" /\ pc' # "select"
C17_PendingRecalibrationTaken ==
    [][(SelectTakesAnArm /\ recalibrate_sub # SubEmpty)
          => (stage' = "Calibrating" /\ arm' = "recalibrate")]_vars

\* C15: a closed sensor channel only stops its own arm, the loop keeps
\* iterating on the open channels and on the timeout; and once every sensor
\* channel is closed and drained the loop exits, so no select of the Running
\* stage starts another iteration
SubOf(channel) ==
    CASE channel = "imu" -> imu_sub
      [] channel = "position" -> position_sub
      [] channel = "velocity" -> velocity_sub
      [] channel = "orientation" -> orientation_sub
AllClosedAndDrained ==
    /\ closed = SensorChannels
    /\ \A channel \in SensorChannels : SubOf(channel) = SubEmpty
ClosedArmSilent ==
    \A channel \in closed :
        (SubOf(channel) = SubEmpty /\ SelectTakesAnArm) => arm' # channel
C15_LoopExitsWhenAllClosed ==
    [][/\ ClosedArmSilent
       /\ AllClosedAndDrained => ~(SelectTakesAnArm /\ stage' = "Running")]_vars

\* C16: each sensor channel buffers at most one unconsumed frame, and it is
\* the newest frame sent since the channel was last read: an older unconsumed
\* frame is dropped when a newer one arrives, and the frame an arm processes
\* is the newest one sent on its channel
C16_SingleSlotNewestWins ==
    \A channel \in SensorChannels :
        /\ Len(SubOf(channel)) <= 1
        /\ SubOf(channel) = newest[channel]
C16_Witness ==
    /\ stage = "Running"
    /\ pc = "predict"
    /\ arm = "position"
    /\ iters = 0
    /\ frames_sent = 2
    /\ \A channel \in SensorChannels : SubOf(channel) = SubEmpty

\* C18: at every iteration boundary of the Running stage (the select, and the
\* aggregation and publication that a passed CDF check leads to), each of
\* the five weights of every particle lies in [0, 1]
AtIterationBoundary ==
    /\ stage = "Running"
    /\ pc \in {"select", "aggregate", "publish"}
C18_WeightsInUnitInterval ==
    AtIterationBoundary =>
        \A i \in Indices :
            \A c \in Channels :
                /\ RLeq(RZero, particles[i][WeightOf(c)])
                /\ RLeq(particles[i][WeightOf(c)], ROne)
C18_Witness ==
    /\ stage = "Running"
    /\ pc = "aggregate"
    /\ obs # <<>>
    /\ obs[1].recovered
    /\ \E i \in Indices :
          \E c \in Channels :
             /\ RLt(default_weight, particles[i][WeightOf(c)])
             /\ RLt(particles[i][WeightOf(c)], ROne)

\* C21: at the end of calibration an accel_correction with a NaN component
\* and a start_orientation with a non-finite component are replaced by the
\* identity rotation, and a calibration in which no IMU frame arrived
\* completes with start_orientation = identity
IdentityRotation == RZero
CalibrationEnds == stage = "Calibrating" /\ stage' = "Running"
C21_FallbackStep ==
    CalibrationEnds =>
        /\ \A e \in DOMAIN imu_map :
              /\ e \in DOMAIN calibrations'
              /\ ~IsNaN(calibrations'[e].accel_correction)
              /\ IsNaN(FromAxisAngle(Cross(imu_map[e].accel, total_gravity), RZero))
                    => calibrations'[e].accel_correction = IdentityRotation
        /\ IsFinite(start_orientation')
        /\ ~IsFinite(FromAxisAngle(Cross(total_gravity, RNeg(ROne)), RZero))
              => start_orientation' = IdentityRotation
        /\ imu_map = EmptyMap => start_orientation' = IdentityRotation
C21_NonFiniteFallsBackToIdentity == [][C21_FallbackStep]_vars
C21_Witness ==
    /\ stage = "Running"
    /\ pc = "init"
    /\ calib_frames_sent = 0
    /\ calibrations = EmptyMap
    /\ start_orientation = IdentityRotation

\* C22: when the mean of the particles' orientations is degenerate in an
\* iteration, the pose published in that iteration carries the orientation of
\* the previously published pose, while position and linear velocity are the
\* particle means
OrientationDegenerate == ~QuatMean(particles, "orientation").ok
C22_PublishStep ==
    (stage = "Running" /\ pc = "publish" /\ pc' = "select" /\ OrientationDegenerate)
        => /\ robot_base'.orientation = robot_base.orientation
           /\ robot_base'.position = Mean(particles, "position")
           /\ robot_base'.linear_velocity = Mean(particles, "linear_velocity")
C22_DegenerateKeepsOrientation == [][C22_PublishStep]_vars
C22_Witness ==
    /\ stage = "Running"
    /\ pc = "select"
    /\ pub_count = 2
    /\ particles # <<>>
    /\ OrientationDegenerate
    /\ robot_base.orientation # IdentityRotation
    /\ robot_base.position # RZero

\* C23: WhileLoop.run evaluates the condition before every pass, runs the
\* body children in order once per successful condition, and returns Ok
\* exactly when the condition first fails (a body that increments a counter
\* under the condition counter < n ends at exactly n); when a body child
\* fails, run returns Err at once, without running the later children or
\* the condition again
ChildrenInOrder ==
    /\ pass_runs = [k \in 1..Len(pass_runs) |-> k]
    /\ Len(pass_runs) <= Len(bt_body)
    /\ bt_pc = "body" => bt_child = Len(pass_runs) + 1
    /\ (bt_pc = "condition" /\ passes > 0) => Len(pass_runs) = Len(bt_body)
ConditionBeforeEveryPass ==
    /\ bt_pc \in {"condition", "body"} => condition_runs = passes
    /\ bt_status = "none" <=> bt_pc # "returned"
ReturnsOkWhenConditionFails ==
    bt_status = "Ok" =>
        /\ ~(bt_sum < bt_condition)
        /\ condition_runs = passes + 1
        /\ passes > 0 => Len(pass_runs) = Len(bt_body)
        /\ bt_body = <<"increment">> => (bt_sum = bt_condition /\ passes = bt_condition)
ReturnsErrAtOnce ==
    /\ bt_status = "Err" =>
          /\ condition_runs = passes
          /\ pass_runs # <<>>
          /\ bt_body[pass_runs[Len(pass_runs)]] \in {"Err", "below_two"}
    /\ \A k \in 1..Len(pass_runs) :
          bt_body[pass_runs[k]] = "Err" => (bt_status = "Err" /\ k = Len(pass_runs))
C23_WhileLoop ==
    bt_pc # "idle" =>
        /\ ChildrenInOrder
        /\ ConditionBeforeEveryPass
        /\ ReturnsOkWhenConditionFails
        /\ ReturnsErrAtOnce
C23_Witness ==
    /\ bt_status = "Ok"
    /\ bt_body = <<"increment">>
    /\ bt_condition = MaxLimit
    /\ bt_sum = MaxLimit
    /\ passes = MaxLimit

\* C24: for every non-empty batch the depth d of the quadtree satisfies
\* 2^d > max_range, so every anchor lies inside the quadtree's region and no
\* insertion is rejected
C24_DepthCoversRange ==
    \A frame \in FramesEmitted :
        /\ Pow2(frame.depth) > frame.max_range
        /\ CountSum(frame.quadtree) = frame.points

\* C25: rasterizing a non-empty batch never panics and emits a frame, also
\* when all the points of the batch fall into one grid cell
C25_NonEmptyBatchEmitsFrame ==
    [][(batches_sent' = batches_sent + 1 /\ last_batch_len' > 0)
          => /\ rasterizer' = "ok"
             /\ Len(octree_sub') = Len(octree_sub) + 1]_vars

\* C26: when the recovery runs on a channel, the particles it rewrites are the
\* k = ceil(N * undeprivation_factor) particles with the smallest multiplied
\* weights of the channel, each gains (minimum_unnormalized_weight - S) / k,
\* the weights then sum to minimum_unnormalized_weight, and after the
\* division they sum to 1
RecoveryCount == RCeil(RMul(RInt(point_count), undeprivation_factor))
CorrectiveWeight(r) ==
    RDiv(RSub(minimum_unnormalized_weight, r.sum), RInt(RecoveryCount))
RecoveredWeight(r, i) ==
    IF i \in r.rewritten THEN RAdd(r.weights[i], CorrectiveWeight(r)) ELSE r.weights[i]
C26_Recovery(r, last) ==
    /\ r.sum = QueueSum(r.weights)
    /\ Cardinality(r.rewritten) = RecoveryCount
    /\ \A i \in r.rewritten : \A j \in Indices \ r.rewritten :
          RLeq(r.weights[i], r.weights[j])
    /\ QueueSum([i \in Indices |-> RecoveredWeight(r, i)]) = minimum_unnormalized_weight
    /\ WeightSum(particles, r.channel) = ROne
    /\ last => \A i \in Indices :
                  particles[i][WeightOf(r.channel)] =
                      RDiv(RecoveredWeight(r, i), minimum_unnormalized_weight)
C26_RecoveryRestoresSum ==
    (stage = "Running" /\ pc = "predict") =>
        \A n \in 1..Len(obs) : obs[n].recovered => C26_Recovery(obs[n], n = Len(obs))
C26_Witness ==
    /\ stage = "Running"
    /\ pc = "predict"
    /\ \E n \in 1..Len(obs) :
          /\ obs[n].recovered
          /\ n = Len(obs)
          /\ RLt(RZero, CorrectiveWeight(obs[n]))
          /\ \E i, j \in Indices : RLt(obs[n].weights[i], obs[n].weights[j])

\* C27: during and at the end of a calibration, for every IMU that reported
\* n >= 1 frames the accumulated count is n and the accumulated acceleration
\* is the sum over the n frames, the first included, of the acceleration
\* turned into the robot's frame by the IMU's isometry_from_base; every IMU
\* frame of the model reports the same acceleration, so the sum is n times
\* the turned acceleration
ReportedAcceleration == CHOOSE a \in {f.acceleration : f \in ImuFrames} : TRUE
C27_AccumulatedAcceleration ==
    stage = "Calibrating" =>
        \A e \in DOMAIN imu_map :
            /\ imu_map[e].count >= 1
            /\ imu_map[e].accel =
                  RMul(RInt(imu_map[e].count),
                       Rotate(ElementRot(e), ReportedAcceleration))

\* C28: an observation update leaves the values and the weights of the
\* other channels of every particle unchanged, the particles being at most
\* reordered as whole records: a position, velocity or orientation frame
\* changes only its own channel, an IMU frame only linear_acceleration and
\* angular_velocity
ChannelsOfArm(name) ==
    CASE name = "imu" -> {"linear_acceleration", "angular_velocity"}
      [] name = "position" -> {"position"}
      [] name = "velocity" -> {"linear_velocity"}
      [] name = "orientation" -> {"orientation"}
      [] OTHER -> {}
OtherFields(name) ==
    {c : c \in Channels \ ChannelsOfArm(name)}
        \cup {WeightOf(c) : c \in Channels \ ChannelsOfArm(name)}
WholeRecordOrders == {f \in [Indices -> Indices] : \A i, j \in Indices : i # j => f[i] # f[j]}
OtherChannelsKept(name) ==
    \E f \in WholeRecordOrders :
        \A i \in Indices : \A field \in OtherFields(name) :
            particles'[i][field] = particles[f[i]][field]
C28_UpdateStep ==
    (stage = "Running" /\ pc = "select" /\ pc' = "predict" /\ stage' = "Running")
        => OtherChannelsKept(arm')
C28_ChannelsIndependent == [][C28_UpdateStep]_vars
C28_Witness ==
    /\ stage = "Running"
    /\ pc = "predict"
    /\ arm = "position"
    /\ obs[1].recovered
    /\ particles[1].position_weight # particles[2].position_weight
    /\ particles[1].linear_velocity_weight # particles[2].linear_velocity_weight

\* C29: for every draw u in [0,1) and every non-negative weight vector that
\* sums to 1, the reverse scan selects exactly one parent, the particle i
\* with prefix(i) <= u < prefix(i) + w_i that a forward inverse-CDF search
\* selects, and never a particle of weight zero
Prefix(i) == SumTo(scan_cloud, "position_weight", i - 1)
InverseCdf ==
    {i \in DOMAIN scan_cloud :
        /\ RLeq(Prefix(i), scan_sample)
        /\ RLt(scan_sample, RAdd(Prefix(i), scan_cloud[i].position_weight))}
Scanned == scan_pick # -1
C29_ReverseScanIsInverseCdf ==
    Scanned =>
        /\ InverseCdf = {scan_pick}
        /\ scan_cloud[scan_pick].position_weight # RZero
C29_Witness ==
    /\ Scanned
    /\ scan_pick = 3
    /\ scan_cloud[2].position_weight = RZero
    /\ scan_cloud[1].position_weight # RZero
    /\ RLt(Prefix(3), scan_sample)

\* C30: in the prediction step the new state of each particle depends only
\* on the tables captured before the step, on its own previous state and on
\* its own draws, never on another particle's updated state, so the result
\* is the same for every order in which the particles are processed
PredictionStep == stage = "Running" /\ pc = "predict" /\ pc' = "aggregate"
OwnOutcomes(i) == Predicted(particles[i], particles, delta)
C30_PredictionStepIndependent ==
    PredictionStep => \A i \in Indices : particles'[i] \in OwnOutcomes(i)
StageCalibrated == stage = "Calibrating" /\ stage' = "Running"
C31_AsStatedStep ==
    /\ StageCalibrated => DOMAIN calibrations' = reported
    /\ ~StageCalibrated => calibrations' = calibrations
C31_RecordsOfThoseThatSent == [][C31_AsStatedStep]_vars
\* C31 amended: with the identities whose frame the receive loop of the
\* stage took, each record computed from the sums of that stage alone
ReceivedInStage == DOMAIN imu_map
C31_AmendedStep ==
    /\ StageCalibrated =>
          /\ DOMAIN calibrations' = ReceivedInStage
          /\ \A e \in ReceivedInStage :
                calibrations'[e] = CalibratedImu(imu_map[e], total_gravity)
    /\ ~StageCalibrated => calibrations' = calibrations
C31_RecordsOfThoseReceived == [][C31_AmendedStep]_vars
C31_Witness ==
    /\ stage = "Running"
    /\ pc = "init"
    /\ arm = "recalibrate"
    /\ DOMAIN calibrations = {"imu_b"}

\* C32: on every entry to Running the cloud consists of exactly point_count
\* particles, each with all five weights 1 / point_count and the
\* orientation start_orientation, and the number of particles stays
\* point_count for the whole stage
EntersRunning == stage = "Running" /\ pc = "init" /\ pc' = "select"
FreshCloud(ps, orientation) ==
    /\ Len(ps) = point_count
    /\ \A i \in 1..Len(ps) :
          /\ \A c \in Channels : ps[i][WeightOf(c)] = Rat(1, point_count)
          /\ ps[i].orientation = orientation
C32_CloudStep ==
    /\ EntersRunning => FreshCloud(particles', start_orientation')
    /\ (stage' = "Running" /\ pc' # "init") => Len(particles') = point_count
LeavesCalibrating == stage = "Calibrating" /\ stage' = "Running"
LeavesRunning == stage = "Running" /\ stage' = "Calibrating"
SignalArrives == recalibrate_sub = SubEmpty /\ recalibrate_sub' # SubEmpty
C33_SignalStep ==
    /\ LeavesCalibrating => recalibrate_sub' = SubEmpty
    /\ (stage = "Running" /\ SignalArrives) => recal_sent' = recal_sent + 1
    /\ LeavesRunning => recalibrate_sub # SubEmpty
C33_SignalOfCalibrationDiscarded == [][C33_SignalStep]_vars
C33_Witness ==
    /\ stage = "Running"
    /\ pc = "init"
    /\ arm = "none"
    /\ recal_sent > 0
    /\ recalibrate_sub = SubEmpty

\* C34: whenever the lunabase connection is lost, Telemetry publishes the
\* default Steering and the default ArmParameters and disables the camera
\* before it attempts to reconnect, so no stale non-default command stays
\* published while disconnected
Disconnected == tel_pc \in {"connecting", "negotiating", "returned"}
C34_DefaultsWhileDisconnected ==
    Disconnected =>
        /\ steering_signal \in {<<>>, <<DefaultSteering>>}
        /\ arm_signal \in {<<>>, <<DefaultArmParameters>>}
        /\ ~enable_camera
C34_Witness ==
    /\ tel_pc = "connecting"
    /\ connections > 0
    /\ controls_received > 0
    /\ steering_signal = <<DefaultSteering>>
    /\ arm_signal = <<DefaultArmParameters>>

\* C35: in async_run_all an error returned by a critical node stops the
\* runtime and has every remaining node aborted, an error or a panic of a
\* non-critical node leaves the other nodes running, and with no runnables
\* the function returns Ok immediately
JoinedInLoop(n) == run_pc = "loop" /\ n \notin joined /\ joined' = joined \cup {n}
CriticalErrorStops ==
    \A n \in Nodes :
        (JoinedInLoop(n) /\ node_state[n] = "Err" /\ n \in critical)
            => (run_pc' = "draining" /\ senders_dropped')
OthersKeepRunning ==
    \A n \in Nodes :
        (JoinedInLoop(n) /\ (node_state[n] = "panicked"
                               \/ (node_state[n] = "Err" /\ n \notin critical)))
            => (run_pc' = "loop" /\ ~senders_dropped' /\ node_state' = node_state)
AbortedOnlyOnStop ==
    \A n \in Nodes :
        (node_state[n] # "aborted" /\ node_state'[n] = "aborted") => senders_dropped
NoNodeLeftRunning ==
    (run_pc' = "returned" /\ joined' = runnables' /\ logger' = "Ok")
        => \A n \in Nodes : node_state'[n] # "running"
StartedWithNone == run_pc = "idle" /\ run_pc' # "idle" /\ runnables' = {}
C35_AsStatedStep ==
    /\ CriticalErrorStops
    /\ OthersKeepRunning
    /\ AbortedOnlyOnStop
    /\ NoNodeLeftRunning
    /\ StartedWithNone => (run_pc' = "returned" /\ run_result' = "Ok")
C35_NoRunnablesReturnsOk == [][C35_AsStatedStep]_vars
\* C35 amended: with no runnables the function returns at once, Ok when
\* init_logger succeeded and its error otherwise
C35_AmendedStep ==
    /\ CriticalErrorStops
    /\ OthersKeepRunning
    /\ AbortedOnlyOnStop
    /\ NoNodeLeftRunning
    /\ StartedWithNone =>
          /\ run_pc' = "returned"
          /\ run_result' = logger'
C35_CriticalStopsOthersContinue == [][C35_AmendedStep]_vars
C35_Witness ==
    /\ run_pc = "returned"
    /\ run_result = "Ok"
    /\ ~ctrl_c_failed
    /\ node_state[1] = "Err"
    /\ 1 \in critical
    /\ node_state[2] = "aborted"
    /\ joined = {1, 2}

\* C36: WatchedSubscription::wait_for_change completes only with a value
\* published after the last value this subscription observed, never at once
\* with a value already seen, and on a none() subscription neither get nor
\* wait_for_change ever completes
CallCompletes == watch_completed' = watch_completed + 1
C36_WaitStep ==
    /\ (CallCompletes /\ watch_call' = "wait_for_change")
          => watch_returned'[1] > seen_version
    /\ CallCompletes => watch_kind # "none"
C36_WaitReturnsUnseenValue == [][C36_WaitStep]_vars

\* C37: every initialization request a depth-camera task sends is
\* eventually answered with a started pipeline once the camera is connected
\* and usable, even when the device hub reports a device with another
\* serial first: no request is consumed without being served or retried.
\* While every device was usable, a waiting task's request is in the queue,
\* is being served, or its pipeline is on the way
RequestQueued(serial) == \E i \in 1..Len(init_queue) : init_queue[i] = serial
C37_RequestServedOrRetried ==
    hub_failures = 0 =>
        \A serial \in Serials :
            camera_task[serial] = "waiting" =>
                \/ RequestQueued(serial)
                \/ (hub_pc = "device" /\ target_serial = serial)
                \/ pipelines[serial] > 0

\* C38: Autonomy::advance takes FullAutonomy(TraverseObstacles) to
\* FullAutonomy(Dig), then alternates Dig -> Dump -> Dig forever without
\* returning to TraverseObstacles or becoming None; PartialAutonomy(any
\* stage) becomes None and None stays None
Advanced == advances' = advances + 1
C38_AdvanceStep ==
    Advanced =>
        /\ autonomy = <<"FullAutonomy", "TraverseObstacles">>
              => autonomy' = <<"FullAutonomy", "Dig">>
        /\ autonomy = <<"FullAutonomy", "Dig">> => autonomy' = <<"FullAutonomy", "Dump">>
        /\ autonomy = <<"FullAutonomy", "Dump">> => autonomy' = <<"FullAutonomy", "Dig">>
        /\ autonomy[1] = "PartialAutonomy" => autonomy' = <<"None">>
        /\ autonomy = <<"None">> => autonomy' = <<"None">>
        /\ (autonomy_start[1] = "FullAutonomy")
              => autonomy' \in {<<"FullAutonomy", "Dig">>, <<"FullAutonomy", "Dump">>}
C38_AdvanceCycle == [][C38_AdvanceStep]_vars
C38_Witness ==
    /\ autonomy_start = <<"FullAutonomy", "TraverseObstacles">>
    /\ advances = 5
    /\ autonomy = <<"FullAutonomy", "Dig">>

\* C39: soft_stop returns Failure whenever no blackboard exists; with a
\* blackboard it returns Success on the first ContinueMission, Failure on
\* the first TriggerSetup, and Running if only Pings or no messages arrive
\* before the deadline; it never creates or removes the blackboard
Commands(q) == {i \in 1..Len(q) : q[i] # "Ping"}
FirstCommand(q) == CHOOSE i \in Commands(q) : \A j \in Commands(q) : i <= j
SoftStopReturned == stop_status \in {"Success", "Failure", "Running"}
C39_SoftStopStatus ==
    SoftStopReturned =>
        /\ (bb_given = <<>>) => (stop_status = "Failure" /\ bb = <<>>)
        /\ (bb_given # <<>>) =>
              /\ bb # <<>>
              /\ Commands(bb_given[1]) = {} => stop_status = "Running"
              /\ Commands(bb_given[1]) # {} =>
                    stop_status =
                        IF bb_given[1][FirstCommand(bb_given[1])] = "ContinueMission"
                        THEN "Success" ELSE "Failure"
C39_Witness ==
    /\ stop_status = "Failure"
    /\ bb_given = <<(<<"Ping", "TriggerSetup", "ContinueMission">>)>>
    /\ bb = <<(<<"ContinueMission">>)>>

\* C40: Sequence.run runs its children in order and returns Err at the first
\* child that fails without running the later children (Ok only if all
\* succeed); Select.run runs its children in order and returns Ok at the
\* first child that succeeds without running the later children (Err only
\* if all fail)
RanInOrder == \A i \in 1..Len(seq_runs) : seq_runs[i].child = i
RanWith(st) == {i \in 1..Len(seq_runs) : seq_runs[i].status = st}
RanAll == Len(seq_runs) = Len(seq_body)
\* stopper is the Status that ends the run at once, other the one that lets
\* it go on
StopsAtFirst(stopper, other) ==
    /\ RanWith(stopper) \subseteq {Len(seq_runs)}
    /\ (RanWith(stopper) # {}) <=> (seq_status = stopper)
    /\ (seq_status = other) <=> (RanAll /\ RanWith(other) = 1..Len(seq_body))
    /\ (seq_status = "none") => ~RanAll
C40_FirstDecides ==
    /\ RanInOrder
    /\ Len(seq_runs) <= Len(seq_body)
    /\ (seq_kind = "Sequence") => StopsAtFirst("Err", "Ok")
    /\ (seq_kind = "Select") => StopsAtFirst("Ok", "Err")
C40_Witness ==
    /\ seq_kind = "Select"
    /\ seq_body = <<"below_two", "increment", "Err">>
    /\ seq_status = "Ok"
    /\ Len(seq_runs) = 2
    /\ seq_sum = 3
====
